---- MODULE Spec2Model ----
(***************************************************************************)
(* Model of the scrape endpoint: the POST handler of                       *)
(* src/app/api/scrape/route.ts, which validates a request and then runs    *)
(* the scrapers (axios, cheerio, puppeteer, playwright) either as named   *)
(* by the request or along the fallback chain.  Every await of a scraper   *)
(* is a suspension point; the code between two suspension points is one    *)
(* action.  A scraper is seen from the handler: it is called with a url    *)
(* and either resolves with scraped data, rejects with a                   *)
(* JavaScriptRequiredError, or rejects with a plain Error.                 *)
(***************************************************************************)
EXTENDS Integers, Sequences, FiniteSets, TLC

VARIABLES
    pc,                  \* position of the handler: idle, the await it is suspended in, or done
    body,                \* the parsed JSON body of the request
    reqUrl,              \* request.url
    url,                 \* local `url` of POST
    scraperAgent,        \* local `scraperAgent` of POST
    crawlDepth,          \* local `crawlDepth` of POST
    searchDepth,         \* local `searchDepth` of POST
    strategy,            \* local `strategy` of the agent-specific branch
    primaryAgentError,   \* `error` caught from the specified agent
    puppeteerError,      \* `puppeteerError` caught in the agent-specific fallback
    errorDetails,        \* `errorDetails` of the fallback chain
    lastErrorTimestamp,  \* `lastErrorTimestamp` of the fallback chain
    calls,               \* scraper calls made so far, in order: [agent, url]
    results,             \* what each of those calls settled with, in order
    response,            \* the NextResponse returned, or [kind |-> "none"]
    now,                 \* the clock read by new Date()
    spc,                 \* position of a scraper: idle, the await it is suspended in, or returned
    scraper,             \* the scraper that was called
    target,              \* parameter `url` of the scraper
    site,                \* what the web answers for that url
    res,                 \* `response` of scrapeWithAxios, `fetchResponse` of scrapeWithCheerio
    browser,             \* `browser` of a render scraper: null, open or closed
    tab,                 \* `page` of a render scraper: its url and its document
    pending,             \* what the try or catch block ended with, while finally runs
    outcome,             \* what the call of the scraper settled with
    trace,               \* the awaits of the scraper, in order, and how each settled
    cur,                 \* the request whose code the event loop is running: 1 or 2
    parked,              \* the locals of POST of the other request, while it is suspended
    fn,                  \* the function of lib/utils.ts or the constructor that was called
    args,                \* the arguments of that call
    value                \* what the call returned

handlerVars == <<pc, body, reqUrl, url, scraperAgent, crawlDepth, searchDepth, strategy,
                 primaryAgentError, puppeteerError, errorDetails, lastErrorTimestamp,
                 calls, results, response, now>>

scraperVars == <<spc, scraper, target, site, res, browser, tab, pending, outcome, trace>>

loopVars == <<cur, parked>>

utilVars == <<fn, args, value>>

notHandlerVars == <<scraperVars, loopVars, utilVars>>

notScraperVars == <<handlerVars, loopVars, utilVars>>

vars == <<handlerVars, scraperVars, loopVars, utilVars>>

(***************************************************************************)
(* Bounds of the model.                                                    *)
(***************************************************************************)
MaxDepth == 1        \* crawlDepth and searchDepth range over 0..MaxDepth
MaxImages == 2       \* a scraped page carries 0..MaxImages images

(***************************************************************************)
(* JavaScript values.  An optional value is <<>> (undefined) or <<v>>.     *)
(***************************************************************************)
Undefined == <<>>
Some(v) == <<v>>

TruthyStr(o) == o # Undefined /\ o[1] # ""
TruthyNum(o) == o # Undefined /\ o[1] # 0

\* String.prototype.startsWith
StartsWith(s, p) == Len(s) >= Len(p) /\ SubSeq(s, 1, Len(p)) = p

\* position of the first occurrence of p in s at or after index from, 0 if none
RECURSIVE IndexOfFrom(_, _, _)
IndexOfFrom(s, p, from) ==
    IF from + Len(p) - 1 > Len(s) THEN 0
    ELSE IF SubSeq(s, from, from + Len(p) - 1) = p THEN from
    ELSE IndexOfFrom(s, p, from + 1)

IndexOf(s, p) == IndexOfFrom(s, p, 1)

\* String.prototype.split with a non-empty separator
RECURSIVE Split(_, _)
Split(s, sep) ==
    LET i == IndexOf(s, sep)
    IN  IF i = 0 THEN <<s>>
        ELSE <<SubSeq(s, 1, i - 1)>> \o Split(SubSeq(s, i + Len(sep), Len(s)), sep)

(***************************************************************************)
(* new URL(u).pathname for an absolute http(s) URL: what follows the       *)
(* authority, up to the first "?" or "#"; "/" when the URL has no path.    *)
(***************************************************************************)
FirstOf(s, a, b) ==
    LET i == IndexOf(s, a)
        j == IndexOf(s, b)
    IN  IF i = 0 THEN j ELSE IF j = 0 THEN i ELSE IF i < j THEN i ELSE j

Pathname(u) ==
    LET afterScheme == SubSeq(u, IndexOf(u, "://") + 3, Len(u))
        cut         == FirstOf(afterScheme, "?", "#")
        noQuery     == IF cut = 0 THEN afterScheme ELSE SubSeq(afterScheme, 1, cut - 1)
        slash       == IndexOf(noQuery, "/")
    IN  IF slash = 0 THEN "/" ELSE SubSeq(noQuery, slash, Len(noQuery))

(***************************************************************************)
(* decodeURIComponent on the escapes that occur in the requests of the     *)
(* model; a "%" that does not start one of them is a malformed escape,     *)
(* for which decodeURIComponent throws URIError.                           *)
(***************************************************************************)
Escapes == {"%3A", "%2F", "%3F", "%3D", "%26", "%25"}

Unescape(e) ==
    CASE e = "%3A" -> ":"
      [] e = "%2F" -> "/"
      [] e = "%3F" -> "?"
      [] e = "%3D" -> "="
      [] e = "%26" -> "&"
      [] e = "%25" -> "%"

RECURSIVE DecodeThrows(_)
DecodeThrows(s) ==
    IF s = "" THEN FALSE
    ELSE IF Head(s) # "%" THEN DecodeThrows(Tail(s))
    ELSE IF Len(s) < 3 \/ SubSeq(s, 1, 3) \notin Escapes THEN TRUE
    ELSE DecodeThrows(SubSeq(s, 4, Len(s)))

RECURSIVE decodeURIComponent(_)
decodeURIComponent(s) ==
    IF s = "" THEN ""
    ELSE IF Head(s) # "%" THEN Head(s) \o decodeURIComponent(Tail(s))
    ELSE Unescape(SubSeq(s, 1, 3)) \o decodeURIComponent(SubSeq(s, 4, Len(s)))

(***************************************************************************)
(* The requests of the model.                                              *)
(***************************************************************************)
Agents == {"axios", "cheerio", "puppeteer", "playwright"}

BodyUrls == {"", "http://a.io/p", "https://a.io", "ftp://a.io", "a.io/http://", "HTTP://a.io"}

BodyAgents == Agents \cup {"", "selenium", "Axios"}

Depths == 0..MaxDepth

Opt(S) == {Undefined} \cup {Some(v) : v \in S}

Bodies == [url : Opt(BodyUrls), scraperAgent : Opt(BodyAgents),
           crawlDepth : Opt(Depths), searchDepth : Opt(Depths)]

ReqUrls == {"http://localhost:3000/api/scrape",
            "http://localhost:3000/api/scrape/?sq/http%3A%2F%2Fb.io%2Fq%3Fk%3Dv",
            "http://localhost:3000/api/scrape/?sq/%zz"}

(***************************************************************************)
(* ScrapedData and the Markdown made of it.                                *)
(***************************************************************************)
SampleText ==
    "Lorem ipsum dolor sit amet, consectetur adipiscing elit, sed do eiusmod tempor incididunt ut labore et dolore magna aliqua."

PageImages(u, n) ==
    [i \in 1..n |-> [src |-> u \o "/img" \o ToString(i) \o ".png",
                     alt |-> IF i = 1 THEN "" ELSE "Image " \o ToString(i)]]

ScrapedData(u) ==
    {[textContent |-> SampleText, images |-> PageImages(f, n), finalUrl |-> f] :
        f \in {u, u \o "/final"}, n \in 0..MaxImages}

RECURSIVE ImageLines(_, _)
ImageLines(images, index) ==
    IF index > Len(images) THEN ""
    ELSE LET image   == images[index]
             altText == IF image.alt # "" THEN image.alt
                        ELSE "Scraped Image " \o ToString(index)
         IN  "![" \o altText \o "](" \o image.src \o ")\n" \o ImageLines(images, index + 1)

formatToMarkdown(data) ==
    IF Len(data.images) > 0
    THEN data.textContent \o "\n\n## Images\n\n" \o ImageLines(data.images, 1)
    ELSE data.textContent

(***************************************************************************)
(* What a call of each scraper can settle with, as the handler sees it.    *)
(* axios and cheerio rethrow their JavaScriptRequiredError and wrap every  *)
(* other error in an Error with their own prefix.  puppeteer and           *)
(* playwright wrap every error of the scrape in an Error with their own    *)
(* prefix; an error of browser.close() in their finally block reaches the  *)
(* caller as it is.                                                        *)
(***************************************************************************)
Resolved(d) == [kind |-> "resolved", data |-> d]
JavaScriptRequiredError(m) == [kind |-> "JavaScriptRequiredError", message |-> m]
Error(m) == [kind |-> "Error", message |-> m]
Null == [kind |-> "null"]

scrapeWithAxios(u) ==
    {Resolved(d) : d \in ScrapedData(u)}
    \cup {JavaScriptRequiredError(
            "Content indicates JavaScript is required and was not rendered. Text length: 12. URL: " \o u)}
    \cup {Error("Axios failed for " \o u \o ": " \o m) :
            m \in {"No response received from server. Check network or URL.",
                   "Axios extracted too little text (12 chars)."}}

scrapeWithCheerio(u) ==
    {Resolved(d) : d \in ScrapedData(u)}
    \cup {JavaScriptRequiredError(
            "Content indicates JavaScript is required (pattern matched in HTML, text length: 12). URL: " \o u)}
    \cup {Error("Cheerio failed for " \o u \o ": " \o m) :
            m \in {"Failed to fetch URL with Cheerio: 404 Not Found",
                   "Cheerio extracted too little text (12 chars). Content might be dynamically loaded or not present in initial HTML."}}

scrapeWithPuppeteer(u) ==
    {Resolved(d) : d \in ScrapedData(u)}
    \cup {Error("Puppeteer failed for " \o u \o ": " \o m) :
            m \in {"Navigation timeout of 60000 ms exceeded",
                   "Puppeteer extracted too little text (12 chars)."}}
    \cup {Error("Protocol error (Browser.close): Target closed.")}

scrapeWithPlaywright(u) ==
    {Resolved(d) : d \in ScrapedData(u)}
    \cup {Error("Playwright failed for " \o u \o ": " \o m) :
            m \in {"Timeout 60000ms exceeded.",
                   "Playwright extracted too little text (12 chars). Content: \"Loading...\""}}
    \cup {Error("browser.close: Target page, context or browser has been closed")}

Scrape(agent, u) ==
    CASE agent = "axios" -> scrapeWithAxios(u)
      [] agent = "cheerio" -> scrapeWithCheerio(u)
      [] agent = "puppeteer" -> scrapeWithPuppeteer(u)
      [] agent = "playwright" -> scrapeWithPlaywright(u)

(***************************************************************************)
(* Strings.  The operators below work on strings of any length.            *)
(***************************************************************************)
\* the least and the greatest number of a finite set of positive numbers, 0 if it is empty
MinOf(set) == IF set = {} THEN 0 ELSE CHOOSE i \in set : \A j \in set : i <= j
MaxOf(set) == IF set = {} THEN 0 ELSE CHOOSE i \in set : \A j \in set : i >= j

CharAt(s, i) == SubSeq(s, i, i)

RECURSIVE Concat(_, _, _)
Concat(pieces, lo, hi) ==
    IF lo > hi THEN ""
    ELSE IF lo = hi THEN pieces[lo]
    ELSE Concat(pieces, lo, (lo + hi) \div 2) \o Concat(pieces, (lo + hi) \div 2 + 1, hi)

\* String.prototype.indexOf(p, from - 1) + 1, for a non-empty p
Find(s, p, from) ==
    MinOf({i \in from..(Len(s) - Len(p) + 1) :
              CharAt(s, i) = CharAt(p, 1) /\ SubSeq(s, i, i + Len(p) - 1) = p})

Contains(s, p) == Find(s, p, 1) # 0

UpperCase == "ABCDEFGHIJKLMNOPQRSTUVWXYZ"
LowerCase == "abcdefghijklmnopqrstuvwxyz"

UpperLetters == {CharAt(UpperCase, k) : k \in 1..Len(UpperCase)}

LowerChar(c) ==
    IF c \in UpperLetters THEN CharAt(LowerCase, Find(UpperCase, c, 1)) ELSE c

\* String.prototype.toLowerCase; also the reading of a regular expression with the i flag
ToLower(s) == Concat([i \in 1..Len(s) |-> LowerChar(CharAt(s, i))], 1, Len(s))

\* the least index at or after from where s reads p, letter case apart; p is in
\* lower case and not empty
FindIgnoringCase(s, p, from) ==
    MinOf({i \in from..(Len(s) - Len(p) + 1) :
              /\ LowerChar(CharAt(s, i)) = CharAt(p, 1)
              /\ ToLower(SubSeq(s, i, i + Len(p) - 1)) = p})

\* the class \s of regular expressions, and what trim() removes
WhiteSpace == {" ", "\t", "\n", "\r"}

(***************************************************************************)
(* cleanText of lib/utils.ts.                                              *)
(***************************************************************************)
\* the first match of /<tag[^>]*>([\S\s]*?)<\/tag>/i in s: <<first, last>>, or <<>>
BlockIn(s, tag) ==
    LET open == FindIgnoringCase(s, "<" \o tag, 1)
    IN  IF open = 0 THEN <<>>
        ELSE LET gt == Find(s, ">", open + Len(tag) + 1)
             IN  IF gt = 0 THEN <<>>
                 ELSE LET close == FindIgnoringCase(s, "</" \o tag \o ">", gt + 1)
                      IN  IF close = 0 THEN <<>> ELSE <<open, close + Len(tag) + 2>>

\* s without its part first..last, and with what the rest of s becomes
RECURSIVE RemoveBlocks(_, _)
CutBlock(s, tag, block) ==
    IF block = <<>> THEN s
    ELSE SubSeq(s, 1, block[1] - 1) \o RemoveBlocks(SubSeq(s, block[2] + 1, Len(s)), tag)

\* replace(/<tag[^>]*>([\S\s]*?)<\/tag>/gmi, '')
RemoveBlocks(s, tag) == CutBlock(s, tag, BlockIn(s, tag))

\* the first match of /<\/?[^>]+(>|$)/ in s: <<first, last>>, or <<>>
TagIn(s) ==
    LET start == MinOf({i \in 1..(Len(s) - 1) : CharAt(s, i) = "<" /\ CharAt(s, i + 1) # ">"})
    IN  IF start = 0 THEN <<>>
        ELSE LET gt == Find(s, ">", start + 1)
             IN  <<start, IF gt = 0 THEN Len(s) ELSE gt>>

\* the first match of /\s\s+/ in s: <<first, last>>, or <<>>
SpacesIn(s) ==
    LET start == MinOf({i \in 1..(Len(s) - 1) :
                           CharAt(s, i) \in WhiteSpace /\ CharAt(s, i + 1) \in WhiteSpace})
    IN  IF start = 0 THEN <<>>
        ELSE LET next == MinOf({i \in start..Len(s) : CharAt(s, i) \notin WhiteSpace})
             IN  <<start, IF next = 0 THEN Len(s) ELSE next - 1>>

\* replace(/<\/?[^>]+(>|$)/g, " ") and replace(/\s\s+/g, ' ')
RECURSIVE ReplaceTags(_)
RECURSIVE CollapseSpaces(_)
\* a tag is taken out and nothing is put in its place
PutSpace_TagsRemoved(s, match, what) ==
    IF match = <<>> THEN s
    ELSE SubSeq(s, 1, match[1] - 1) \o (IF what = "tags" THEN "" ELSE " ")
             \o (IF what = "tags" THEN ReplaceTags(SubSeq(s, match[2] + 1, Len(s)))
                 ELSE CollapseSpaces(SubSeq(s, match[2] + 1, Len(s))))

PutSpace(s, match, what) ==
    IF match = <<>> THEN s
    ELSE SubSeq(s, 1, match[1] - 1) \o " "
             \o (IF what = "tags" THEN ReplaceTags(SubSeq(s, match[2] + 1, Len(s)))
                 ELSE CollapseSpaces(SubSeq(s, match[2] + 1, Len(s))))

ReplaceTags(s) == PutSpace(s, TagIn(s), "tags")

CollapseSpaces(s) == PutSpace(s, SpacesIn(s), "spaces")

\* String.prototype.trim
Trim(s) ==
    LET inked == {i \in 1..Len(s) : CharAt(s, i) \notin WhiteSpace}
    IN  IF inked = {} THEN "" ELSE SubSeq(s, MinOf(inked), MaxOf(inked))

cleanText(text) ==
    IF text = "" THEN ""
    ELSE Trim(CollapseSpaces(ReplaceTags(RemoveBlocks(RemoveBlocks(text, "script"), "style"))))
(***************************************************************************)
(* new URL(src, base).href for an absolute http(s) base.  The result is    *)
(* <<href>>, or <<>> when the constructor throws TypeError.  White space    *)
(* around src is stripped; a reference with a scheme other than http(s) is  *)
(* kept as it is; any other reference is joined to the base, and then the   *)
(* host is checked and the segments "." and ".." of the path are resolved.  *)
(***************************************************************************)
\* the scheme of a reference ("" if it has none): letters followed by ":"
SchemeOf(ref) ==
    LET colon == Find(ref, ":", 1)
    IN  IF colon > 1 /\ \A i \in 1..(colon - 1) : LowerChar(CharAt(ref, i)) \in {LowerChar(c) : c \in UpperLetters}
        THEN ToLower(SubSeq(ref, 1, colon - 1))
        ELSE ""

\* index of the first character of stops in s at or after from, Len(s) + 1 if none
EndOfPart(s, stops, from) ==
    MinOf({i \in from..(Len(s) + 1) : i = Len(s) + 1 \/ CharAt(s, i) \in stops})

\* the numbers of a finite set, in ascending order
RECURSIVE Ascending(_)
Ascending(set) ==
    IF set = {} THEN <<>> ELSE <<MinOf(set)>> \o Ascending(set \ {MinOf(set)})

\* the segments of a path that starts with "/": what stands between its slashes
Segments(path) ==
    LET slashes == Ascending({i \in 1..Len(path) : CharAt(path, i) = "/"})
    IN  [k \in 1..Len(slashes) |->
            SubSeq(path, slashes[k] + 1,
                   IF k = Len(slashes) THEN Len(path) ELSE slashes[k + 1] - 1)]

\* the segments left when "." and ".." are resolved; out holds the segments kept so far
RECURSIVE RemoveDotSegments(_, _)
RemoveDotSegments(segments, out) ==
    IF segments = <<>> THEN out
    ELSE RemoveDotSegments(
             Tail(segments),
             IF Head(segments) = ".."
             THEN (IF out = <<>> THEN out ELSE SubSeq(out, 1, Len(out) - 1))
                      \o (IF Len(segments) = 1 THEN <<"">> ELSE <<>>)
             ELSE IF Head(segments) = "."
             THEN out \o (IF Len(segments) = 1 THEN <<"">> ELSE <<>>)
             ELSE out \o <<Head(segments)>>)

RECURSIVE JoinPath(_)
JoinPath(segments) ==
    IF segments = <<>> THEN "" ELSE "/" \o Head(segments) \o JoinPath(Tail(segments))

\* a path with its "." and ".." segments resolved
NormalizePath(path) == JoinPath(RemoveDotSegments(Segments(path), <<>>))

\* the parts of an absolute http(s) URL; an empty path is "/"
UrlParts(u) ==
    LET start   == Find(u, "://", 1) + 3
        hostEnd == EndOfPart(u, {"/", "?", "#"}, start)
        pathEnd == EndOfPart(u, {"?", "#"}, hostEnd)
    IN  [scheme |-> ToLower(SubSeq(u, 1, start - 4)),
         host   |-> ToLower(SubSeq(u, start, hostEnd - 1)),
         path   |-> IF hostEnd = pathEnd THEN "/" ELSE SubSeq(u, hostEnd, pathEnd - 1),
         query  |-> SubSeq(u, pathEnd, EndOfPart(u, {"#"}, pathEnd) - 1),
         rest   |-> SubSeq(u, pathEnd, Len(u))]

Origin(parts) == parts.scheme \o "://" \o parts.host

\* the file of the base is taken for a directory
DirOf_WholePath(path) == path \o "/"

\* the directory of a path: the path up to and including its last "/"
DirOf(path) == SubSeq(path, 1, MaxOf({i \in 1..Len(path) : CharAt(path, i) = "/"}))

\* the href of the parts of an absolute http(s) URL, if its host is one
HrefOf(parts) ==
    IF parts.host = "" \/ Contains(parts.host, " ") THEN <<>>
    ELSE <<Origin(parts) \o NormalizePath(parts.path) \o parts.rest>>

\* the reference ref, of the given scheme, written out against the parts b of the base
Joined(ref, scheme, b) ==
    IF scheme # "" THEN ref
    ELSE IF StartsWith(ref, "//") THEN b.scheme \o ":" \o ref
    ELSE IF StartsWith(ref, "/") THEN Origin(b) \o ref
    ELSE IF ref = "" THEN Origin(b) \o b.path \o b.query
    ELSE IF StartsWith(ref, "?") THEN Origin(b) \o b.path \o ref
    ELSE IF StartsWith(ref, "#") THEN Origin(b) \o b.path \o b.query \o ref
    ELSE Origin(b) \o DirOf(b.path) \o ref

\* new URL(ref, base).href for a ref without white space around it and the parts b of base
Resolve(ref, b) ==
    LET scheme == SchemeOf(ref)
    IN  IF scheme \notin {"", "http", "https"} THEN <<ref>>
        ELSE IF scheme # "" /\ ~StartsWith(SubSeq(ref, Len(scheme) + 2, Len(ref)), "//")
        THEN <<>>
        ELSE HrefOf(UrlParts(Joined(ref, scheme, b)))

Href(src, base) == Resolve(Trim(src), UrlParts(base))
(***************************************************************************)
(* Documents.  A page is the tree cheerio.load builds from the markup and  *)
(* the browser builds when it renders: an element has a tag, attributes    *)
(* (pairs <<name, value>>) and children; a text node has a text.  The      *)
(* markup of a page is the serialization of its tree.                      *)
(***************************************************************************)
Element(tag, attrs, kids) == [tag |-> tag, attrs |-> attrs, text |-> "", kids |-> kids]
TextNode(t) == [tag |-> "#text", attrs |-> <<>>, text |-> t, kids |-> <<>>]

\* $(el).attr(name), el.getAttribute(name); "" stands for an absent attribute too
RECURSIVE AttrIn(_, _)
AttrIn(attrs, name) ==
    IF attrs = <<>> THEN ""
    ELSE IF Head(attrs)[1] = name THEN Head(attrs)[2]
    ELSE AttrIn(Tail(attrs), name)

Attr(node, name) == AttrIn(node.attrs, name)

\* the class attribute of a node holds a name among its space-separated names
HasClass(node, name) == Contains(" " \o Attr(node, "class") \o " ", " " \o name \o " ")

\* the CSS selectors the scrapers use: tag, .class, #id, tag[name="v"], tag[name*="v"]
Matches(node, selector) ==
    IF node.tag = "#text" THEN FALSE
    ELSE IF StartsWith(selector, ".")
         THEN HasClass(node, SubSeq(selector, 2, Len(selector)))
    ELSE IF StartsWith(selector, "#")
         THEN Attr(node, "id") = SubSeq(selector, 2, Len(selector))
    ELSE IF Contains(selector, "[")
         THEN LET lb == Find(selector, "[", 1)
                  eq == Find(selector, "=", 1)
                  v  == SubSeq(selector, eq + 2, Len(selector) - 2)
              IN  /\ lb = 1 \/ node.tag = SubSeq(selector, 1, lb - 1)
                  /\ IF CharAt(selector, eq - 1) = "*"
                     THEN Contains(Attr(node, SubSeq(selector, lb + 1, eq - 2)), v)
                     ELSE Attr(node, SubSeq(selector, lb + 1, eq - 1)) = v
    ELSE node.tag = selector

MatchesAny(node, selectors) == \E k \in 1..Len(selectors) : Matches(node, selectors[k])

\* $(selectors).remove(), querySelectorAll(selector).forEach(el => el.remove())
RECURSIVE Remove(_, _)
RECURSIVE RemoveIn(_, _)
Remove(node, selectors) == [node EXCEPT !.kids = RemoveIn(node.kids, selectors)]
RemoveIn(kids, selectors) ==
    IF kids = <<>> THEN <<>>
    ELSE IF MatchesAny(Head(kids), selectors) THEN RemoveIn(Tail(kids), selectors)
    ELSE <<Remove(Head(kids), selectors)>> \o RemoveIn(Tail(kids), selectors)

\* $(selector), querySelectorAll(selector): the matching elements in document order
RECURSIVE Select(_, _)
RECURSIVE SelectIn(_, _)
Select(node, selector) ==
    (IF Matches(node, selector) THEN <<node>> ELSE <<>>) \o SelectIn(node.kids, selector)
SelectIn(kids, selector) ==
    IF kids = <<>> THEN <<>>
    ELSE Select(Head(kids), selector) \o SelectIn(Tail(kids), selector)

\* Node.textContent: the texts below a node, in document order
RECURSIVE TextContent(_)
RECURSIVE TextContentIn(_)
TextContent(node) == IF node.tag = "#text" THEN node.text ELSE TextContentIn(node.kids)
TextContentIn(kids) ==
    IF kids = <<>> THEN "" ELSE TextContent(Head(kids)) \o TextContentIn(Tail(kids))

\* $(selector).text(): the text contents of the matched elements, joined
RECURSIVE TextOfAll(_)
TextOfAll(nodes) ==
    IF nodes = <<>> THEN "" ELSE TextContent(Head(nodes)) \o TextOfAll(Tail(nodes))

CheerioText(document, selector) == TextOfAll(Select(document, selector))

\* HTMLElement.innerText: the rendered text; script, style and noscript render
\* nothing, and a block ends its line
Unrendered == {"script", "style", "noscript", "head"}
Blocks == {"p", "div", "main", "article", "section", "header", "footer", "nav", "aside",
           "h1", "form"}

RECURSIVE innerText(_)
RECURSIVE innerTextIn(_)
innerText(node) ==
    IF node.tag = "#text" THEN node.text
    ELSE IF node.tag \in Unrendered THEN ""
    ELSE innerTextIn(node.kids)
innerTextIn(kids) ==
    IF kids = <<>> THEN ""
    ELSE innerText(Head(kids))
             \o (IF Head(kids).tag \in Blocks /\ Len(kids) > 1 THEN "\n" ELSE "")
             \o innerTextIn(Tail(kids))

\* the markup of a tree
VoidTags == {"img", "link", "meta", "br"}

RECURSIVE AttrsHtml(_)
AttrsHtml(attrs) ==
    IF attrs = <<>> THEN ""
    ELSE " " \o Head(attrs)[1] \o "=\"" \o Head(attrs)[2] \o "\"" \o AttrsHtml(Tail(attrs))

RECURSIVE OuterHtml(_)
RECURSIVE InnerHtml(_)
OuterHtml(node) ==
    IF node.tag = "#text" THEN node.text
    ELSE "<" \o node.tag \o AttrsHtml(node.attrs) \o ">"
             \o (IF node.tag \in VoidTags THEN ""
                 ELSE InnerHtml(node.kids) \o "</" \o node.tag \o ">")
InnerHtml(kids) ==
    IF kids = <<>> THEN "" ELSE OuterHtml(Head(kids)) \o InnerHtml(Tail(kids))
(***************************************************************************)
(* The pages of the model.  A page has a navigation bar, a script, an      *)
(* optional <noscript> notice, a content region (<main>, or a <div> with   *)
(* no landmark) holding a paragraph and the images, and, after a <main>,    *)
(* a closing paragraph.                                                    *)
(***************************************************************************)
Filler ==
    SampleText \o " " \o SampleText \o " " \o SampleText \o " " \o SampleText \o " " \o SampleText

\* lengths of the paragraph, around the thresholds 50 and 100 of the scrapers and
\* around the gate 500 of the detector as cheerio and as axios measure it
TextLengths == {49, 50, 99, 100, 455, 456, 477, 478}

Notices == {"none", "noscript", "script", "visible"}

Layouts == {"main", "plain"}

\* a text of a given length that neither starts nor ends with a space
Paragraph(length) == SubSeq(Filler, 1, length - 1) \o "."

Img(src, alt) == Element("img", <<<<"src", src>>, <<"alt", alt>>>>, <<>>)

\* the images of a page that has some: a relative reference, one that does not
\* resolve, an <img> without src, a reference without alt and an absolute one
Images ==
    <<Img("../images/pic.jpg", "Pic"), Img("http://", "Broken"), Img("", "No source"),
      Img("/logo.svg", ""), Img("https://cdn.io/x.png", "CDN")>>

\* hydrated: the scripts of the page have run and have added a paragraph
Page(length, notice, layout, imgs, hydrated) ==
    LET nav      == Element("nav", <<>>, <<TextNode("Home | About")>>)
        script   == Element("script", <<>>,
                        <<TextNode(IF notice = "script"
                                   THEN "alert('This app requires JavaScript');"
                                   ELSE "var a = 1;")>>)
        noscript == IF notice = "noscript"
                    THEN <<Element("noscript", <<>>, <<TextNode("JavaScript is required")>>)>>
                    ELSE <<>>
        banner   == IF notice = "visible"
                    THEN <<Element("div", <<<<"class", "notice wide">>>>,
                               <<TextNode("Please enable JavaScript to see comments. ")>>)>>
                    ELSE <<>>
        para     == Element("p", <<>>, <<TextNode(Paragraph(length))>>)
        added    == IF hydrated
                    THEN <<Element("p", <<<<"class", "app">>>>, <<TextNode(SampleText)>>)>>
                    ELSE <<>>
        content  == IF layout = "main"
                    THEN <<Element("main", <<>>, <<para>> \o added \o imgs),
                           Element("p", <<>>, <<TextNode("Contact us.")>>)>>
                    ELSE <<Element("div", <<<<"id", "wrap">>>>, <<para>> \o added \o imgs)>>
    IN  Element("html", <<>>,
            <<Element("body", <<>>, <<nav, script>> \o noscript \o banner \o content)>>)

\* a page whose notice is not shown to a browser is one that its scripts fill in
Hydrates(notice) == notice \in {"noscript", "script"}

NoDocument == TextNode("")

\* what the web answers for a url: where the request ends after redirects, the
\* document served there, and the document a browser shows after running its scripts
NoSite == [finalUrl |-> "", served |-> NoDocument, rendered |-> NoDocument]

NoResult == [status |-> 0, contentType |-> "", responseUrl |-> ""]

NoTab == [url |-> "", document |-> NoDocument]

Targets == {"http://a.io/docs/page.html"}

\* where a request for a target ends after redirects
FinalUrls(u) == {u, "http://b.io/blog/2024/post"}

\* pages without images at u, of every text, notice and layout; and pages with
\* images, of a short and of a long text, at u and where a redirect of u ends
Sites(u) ==
    {[finalUrl |-> u,
      served   |-> Page(l, n, y, <<>>, FALSE),
      rendered |-> Page(l, n, y, <<>>, Hydrates(n))] :
        l \in TextLengths, n \in Notices, y \in Layouts}
    \cup
    {[finalUrl |-> f,
      served   |-> Page(l, "none", y, Images, FALSE),
      rendered |-> Page(l, "none", y, Images, FALSE)] :
        f \in FinalUrls(u), l \in {49, 100}, y \in Layouts}

(***************************************************************************)
(* The detector of pages that need JavaScript, of both static scrapers.    *)
(***************************************************************************)
JS_REQUIRED_CONTENT_THRESHOLD == 500

\* /head.*tail/i; a pattern without ".*" has an empty tail
Pattern(head, tail) == [head |-> head, tail |-> tail]

jsRequiredPatterns ==
    <<Pattern("you need to enable javascript", ""),
      Pattern("enable javascript to continue", ""),
      Pattern("javascript is required", ""),
      Pattern("javascript is disabled", ""),
      Pattern("requires javascript", ""),
      Pattern("doesn't work unless you turn on javascript", ""),
      Pattern("<noscript", ">javascript is required</noscript>"),
      Pattern("please enable javascript", ""),
      Pattern("to use this site, please enable javascript", ""),
      Pattern("this site requires javascript", "")>>

\* the indices where s reads p, letter case apart
Occurrences(s, p) ==
    {i \in 1..(Len(s) - Len(p) + 1) :
        /\ LowerChar(CharAt(s, i)) = CharAt(p, 1)
        /\ ToLower(SubSeq(s, i, i + Len(p) - 1)) = p}

\* pattern.test(s); "." matches no line terminator
Test(pattern, s) ==
    \E i \in Occurrences(s, pattern.head) :
        \/ pattern.tail = ""
        \/ \E j \in Occurrences(s, pattern.tail) :
              /\ j >= i + Len(pattern.head)
              /\ LET between == SubSeq(s, i + Len(pattern.head), j - 1)
                 IN  ~Contains(between, "\n") /\ ~Contains(between, "\r")

\* jsRequiredPatterns.some(p => p.test(s))
SomePatternTests(s) ==
    \E k \in 1..Len(jsRequiredPatterns) : Test(jsRequiredPatterns[k], s)

(***************************************************************************)
(* The minimum length of the cleaned text of a successful scrape.          *)
(***************************************************************************)
MIN_CONTENT_LENGTH(name) ==
    CASE name = "axios" -> 50
      [] name = "cheerio" -> 100
      [] name = "puppeteer" -> 100
      [] name = "playwright" -> 100

(***************************************************************************)
(* What a try block ends with: a return of scraped data or a throw.        *)
(***************************************************************************)
\* a matching pattern is enough, whatever the length of the text
JsRequired_PatternOnly(html, text) == SomePatternTests(html)

\* the condition under which the loop over jsRequiredPatterns throws
JsRequired(html, text) ==
    SomePatternTests(html) /\ Len(text) < JS_REQUIRED_CONTENT_THRESHOLD

\* images.push({ src: absoluteSrc, alt }), or nothing when new URL threw
Pushed(href, alt) == IF href = <<>> THEN <<>> ELSE <<[src |-> href[1], alt |-> alt]>>

\* the images of a static scraper: an image whose src does not resolve is dropped
RECURSIVE StaticImages(_, _)
StaticImages(imgs, base) ==
    IF imgs = <<>> THEN <<>>
    ELSE (IF Attr(Head(imgs), "src") = "" THEN <<>>
          ELSE Pushed(Href(Attr(Head(imgs), "src"), base), Attr(Head(imgs), "alt")))
             \o StaticImages(Tail(imgs), base)

AxiosNonContent ==
    <<"script", "style", "iframe", "embed", "object", "header", "footer", "nav", "aside">>

\* images make up for a text that is too short
AxiosValidate_UnlessImages(u, r, withoutNoscript) ==
    LET finalTextContent == cleanText(CheerioText(withoutNoscript, "body"))
    IN  IF /\ Len(finalTextContent) < MIN_CONTENT_LENGTH("axios")
           /\ Select(withoutNoscript, "img") = <<>>
        THEN Error("Axios extracted too little text ("
                       \o ToString(Len(finalTextContent)) \o " chars).")
        ELSE Resolved([textContent |-> finalTextContent,
                       images      |-> StaticImages(Select(withoutNoscript, "img"), u),
                       finalUrl    |-> IF r.responseUrl # "" THEN r.responseUrl ELSE u])

\* scrapeWithAxios from the second extraction of the text to the return
AxiosValidate(u, r, withoutNoscript) ==
    LET finalTextContent == cleanText(CheerioText(withoutNoscript, "body"))
    IN  IF Len(finalTextContent) < MIN_CONTENT_LENGTH("axios")
        THEN Error("Axios extracted too little text ("
                       \o ToString(Len(finalTextContent)) \o " chars).")
        ELSE Resolved([textContent |-> finalTextContent,
                       images      |-> StaticImages(Select(withoutNoscript, "img"), u),
                       finalUrl    |-> IF r.responseUrl # "" THEN r.responseUrl ELSE u])

\* the length of the final text is validated before the patterns are tested
AxiosJsCheck_LengthFirst(u, r, stripped) ==
    LET textContent == cleanText(CheerioText(stripped, "body"))
        validated   == AxiosValidate(u, r, Remove(stripped, <<"noscript">>))
    IN  IF validated.kind = "Error" THEN validated
        ELSE IF JsRequired(OuterHtml(r.data), textContent)
        THEN JavaScriptRequiredError(
                 "Content indicates JavaScript is required and was not rendered. Text length: "
                     \o ToString(Len(textContent)) \o ". URL: " \o u)
        ELSE validated

\* scrapeWithAxios from the first extraction of the text on
AxiosJsCheck(u, r, stripped) ==
    LET textContent == cleanText(CheerioText(stripped, "body"))
    IN  IF JsRequired(OuterHtml(r.data), textContent)
        THEN JavaScriptRequiredError(
                 "Content indicates JavaScript is required and was not rendered. Text length: "
                     \o ToString(Len(textContent)) \o ". URL: " \o u)
        ELSE AxiosValidate(u, r, Remove(stripped, <<"noscript">>))

\* scrapeWithAxios from the response of axios.get to the end of the try block
AxiosExtract(u, r) ==
    IF r.contentType = "" \/ ~Contains(ToLower(r.contentType), "text/html")
    THEN Error("Invalid content type: "
                   \o (IF r.contentType = "" THEN "undefined" ELSE r.contentType)
                   \o ". Expected text/html.")
    ELSE AxiosJsCheck(u, r, Remove(r.data, AxiosNonContent))

\* an error axios.get rejects with
AxiosError(status, statusText, code) ==
    [kind |-> "AxiosError", status |-> status, statusText |-> statusText, code |-> code]

\* the catch block of scrapeWithAxios
AxiosCatch(u, error) ==
    IF error.kind = "JavaScriptRequiredError" THEN error
    ELSE IF error.kind = "AxiosError"
    THEN Error("Axios failed for " \o u \o ": "
                   \o (IF error.status # 0
                       THEN "Server responded with status " \o ToString(error.status)
                                \o " - " \o error.statusText \o ". "
                       ELSE "No response received from server. Check network or URL.")
                   \o (IF error.code = "ECONNABORTED" THEN "Request timed out." ELSE ""))
    ELSE Error("Axios failed for " \o u \o ": " \o error.message)

\* what one <noscript> element adds to noscriptMessage
NoscriptPart(noscriptText) ==
    IF SomePatternTests(noscriptText) THEN cleanText(noscriptText) \o " " ELSE ""

\* the message of the noscript elements that carry a notice
RECURSIVE NoscriptMessage(_)
NoscriptMessage(elements) ==
    IF elements = <<>> THEN ""
    ELSE NoscriptPart(TextContent(Head(elements))) \o NoscriptMessage(Tail(elements))

CheerioNonContent ==
    <<"script", "style", "noscript", "link[rel=\"stylesheet\"]", "meta[http-equiv=\"refresh\"]">>

\* the regions scrapeWithCheerio takes the text of, in the order of their priority
CheerioRegions == <<"main", "article", ".post-content", ".entry-content", "#content", "body">>

\* texts[1] || texts[2] || ... : the first text that is not empty, else the last one
FirstTruthy(texts) ==
    texts[MinOf({k \in 1..Len(texts) : texts[k] # "" \/ k = Len(texts)})]

PotentialText(document) ==
    FirstTruthy([k \in 1..Len(CheerioRegions) |-> CheerioText(document, CheerioRegions[k])])

\* scrapeWithCheerio from the extraction of the text to the return
CheerioValidate(finalUrl, stripped) ==
    LET textContent == cleanText(PotentialText(stripped))
    IN  IF Len(textContent) < MIN_CONTENT_LENGTH("cheerio")
        THEN Error("Cheerio extracted too little text (" \o ToString(Len(textContent))
                       \o " chars). Content might be dynamically loaded or not present in initial HTML.")
        ELSE Resolved([textContent |-> textContent,
                       images      |-> StaticImages(Select(stripped, "img"), finalUrl),
                       finalUrl    |-> finalUrl])

\* the error thrown inside the loop over jsRequiredPatterns
CheerioJsError(u, noscriptMessage, tempTextContent) ==
    IF Len(noscriptMessage) > 0
    THEN JavaScriptRequiredError(
             "Content indicates JavaScript is required (via noscript tag: \""
                 \o noscriptMessage \o "\"). URL: " \o u)
    ELSE JavaScriptRequiredError(
             "Content indicates JavaScript is required (pattern matched in HTML, text length: "
                 \o ToString(Len(tempTextContent)) \o "). URL: " \o u)

\* scrapeWithCheerio from the text of the response to the end of the try block
CheerioExtract(u, finalUrl, document) ==
    LET tempTextContent == cleanText(CheerioText(document, "body"))
    IN  IF JsRequired(OuterHtml(document), tempTextContent)
        THEN CheerioJsError(u, Trim(NoscriptMessage(Select(document, "noscript"))),
                            tempTextContent)
        ELSE CheerioValidate(finalUrl, Remove(document, CheerioNonContent))

\* the catch block of scrapeWithCheerio
CheerioCatch(u, error) ==
    IF error.kind = "JavaScriptRequiredError" THEN error
    ELSE Error("Cheerio failed for " \o u \o ": " \o error.message)

\* the elements both render scrapers remove from the page
selectorsToRemove ==
    <<"script", "style", "noscript", "iframe", "embed", "object",
      "header", "footer", "nav", "aside",
      ".advertisement", ".banner", ".popup", ".modal", "#cookie-banner",
      ".share-buttons", ".social-media-links", ".sidebar",
      "button", "form[action*=\"subscribe\"]">>

\* a || b || ... of querySelector over selectors, the last of which matches
FirstElement(document, selectors) ==
    Select(document,
           selectors[MinOf({k \in 1..Len(selectors) : Select(document, selectors[k]) # <<>>})])[1]

\* the second page.evaluate of the render scrapers
RECURSIVE ImagesArray(_)
ImagesArray(imgs) ==
    IF imgs = <<>> THEN <<>>
    ELSE (IF Attr(Head(imgs), "src") # ""
          THEN <<[src |-> Attr(Head(imgs), "src"), alt |-> Attr(Head(imgs), "alt")]>>
          ELSE <<>>)
             \o ImagesArray(Tail(imgs))

Extracted(document) ==
    [textContent |-> innerText(FirstElement(document,
                         <<"main", "article", "[role=\"main\"]", "body">>)),
     images      |-> ImagesArray(Select(document, "img"))]

\* an image whose src does not resolve loses it
Absolute_OrNothing(img, href) ==
    IF href = <<>> THEN [src |-> "", alt |-> img.alt] ELSE [src |-> href[1], alt |-> img.alt]

\* { ...img, src: new URL(img.src, page.url()).href }, or img itself when new URL threw
Absolute(img, href) == IF href = <<>> THEN img ELSE [src |-> href[1], alt |-> img.alt]

\* the images of a render scraper: an image whose src does not resolve keeps it
RECURSIVE RenderImages(_, _)
RenderImages(images, base) ==
    IF images = <<>> THEN <<>>
    ELSE (IF Absolute(Head(images), Href(Head(images).src, base)).src # ""
          THEN <<Absolute(Head(images), Href(Head(images).src, base))>>
          ELSE <<>>)
             \o RenderImages(Tail(images), base)

\* String.prototype.substring(0, end)
Substring(s, end) == SubSeq(s, 1, IF end < Len(s) THEN end ELSE Len(s))

Capitalized(name) == IF name = "puppeteer" THEN "Puppeteer" ELSE "Playwright"

\* a render scraper from the result of the second evaluate to the end of the try block
RenderExtract(name, extractedData, pageUrl) ==
    LET textContent == cleanText(extractedData.textContent)
    IN  IF Len(textContent) < MIN_CONTENT_LENGTH(name)
        THEN Error(Capitalized(name) \o " extracted too little text ("
                       \o ToString(Len(textContent)) \o " chars)."
                       \o (IF name = "playwright"
                           THEN " Content: \"" \o Substring(textContent, 200) \o "\""
                           ELSE ""))
        ELSE Resolved([textContent |-> textContent,
                       images      |-> RenderImages(extractedData.images, pageUrl),
                       finalUrl    |-> pageUrl])

\* too little text is reported as a page that needs rendering
RenderCatch_Signals(name, u, error) ==
    IF Contains(error.message, "extracted too little text")
    THEN JavaScriptRequiredError(Capitalized(name) \o " failed for " \o u \o ": " \o error.message)
    ELSE Error(Capitalized(name) \o " failed for " \o u \o ": " \o error.message)

\* the catch block of a render scraper
RenderCatch(name, u, error) ==
    Error(Capitalized(name) \o " failed for " \o u \o ": " \o error.message)

(***************************************************************************)
(* Responses.                                                              *)
(***************************************************************************)
NoResponse == [kind |-> "none"]

\* NextResponse.json(b) and NextResponse.json(b, { status })
Json(status, b) == [kind |-> "json", status |-> status, body |-> b]

ErrorKeys == {"axiosError", "cheerioError", "puppeteerError", "playwrightError"}

NoDetails == [k \in ErrorKeys |-> Undefined]

InvalidAgentMessage(agent) ==
    "Invalid scraper agent specified: " \o agent
        \o ". Valid options are \"axios\", \"cheerio\", \"puppeteer\", \"playwright\"."

\* every strategy is reported as a fallback
ScrapedBody_Annotated(data, label) ==
    [scrapedText |-> formatToMarkdown(data), strategy |-> label \o " (fallback)",
     finalUrl |-> data.finalUrl, images |-> data.images, timestamp |-> now]

\* the body of the response to a successful scrape
ScrapedBody(data, label) ==
    [scrapedText |-> formatToMarkdown(data), strategy |-> label,
     finalUrl |-> data.finalUrl, images |-> data.images, timestamp |-> now]

\* the entry is built from a property the error does not have
Attempt_NoMessage(error) == Some([message |-> "", timestamp |-> now])

\* the entry of errorDetails for a failed attempt of the fallback chain
Attempt(error) == Some([message |-> error.message, timestamp |-> now])

(***************************************************************************)
(* Resolution of the url of a request: the body's url, or else the part    *)
(* of the request path after "/?sq/", decoded.                             *)
(***************************************************************************)
\* a request that asks for crawling gets its url from the request path alone
ResolveUrl_CrawlByPath(b, ru) ==
    IF TruthyStr(b.url) /\ ~TruthyNum(b.crawlDepth) THEN [throws |-> FALSE, url |-> b.url]
    ELSE LET pathParts == Split(Pathname(ru), "/?sq/")
         IN  IF Len(pathParts) > 1
             THEN IF DecodeThrows(pathParts[2])
                  THEN [throws |-> TRUE, url |-> Undefined]
                  ELSE [throws |-> FALSE, url |-> Some(decodeURIComponent(pathParts[2]))]
             ELSE [throws |-> FALSE, url |-> Undefined]

ResolveUrl(b, ru) ==
    IF TruthyStr(b.url) THEN [throws |-> FALSE, url |-> b.url]
    ELSE LET pathParts == Split(Pathname(ru), "/?sq/")
         IN  IF Len(pathParts) > 1
             THEN IF DecodeThrows(pathParts[2])
                  THEN [throws |-> TRUE, url |-> b.url]
                  ELSE [throws |-> FALSE, url |-> Some(decodeURIComponent(pathParts[2]))]
             ELSE [throws |-> FALSE, url |-> b.url]

\* only an absent url counts as missing, an empty one does not
UrlMissing_AbsentOnly(u) == u = Undefined

\* the test `!url`
UrlMissing(u) == ~TruthyStr(u)

\* the scheme is looked for anywhere in the url
UrlFormatOk_Includes(u) == IndexOf(u, "http://") # 0 \/ IndexOf(u, "https://") # 0

UrlFormatOk(u) == StartsWith(u, "http://") \/ StartsWith(u, "https://")

\* the branch for cheerio runs the axios scraper
SelectScraper_Swapped(agent) ==
    CASE agent = "axios" -> "axios"
      [] agent = "cheerio" -> "axios"
      [] agent = "puppeteer" -> "puppeteer"
      [] agent = "playwright" -> "playwright"
      [] OTHER -> "invalid"

\* the last branch is a bare else: any other name runs the playwright scraper
SelectScraper_ElsePlaywright(agent) ==
    CASE agent = "axios" -> "axios"
      [] agent = "cheerio" -> "cheerio"
      [] agent = "puppeteer" -> "puppeteer"
      [] OTHER -> "playwright"

\* the scraper that the agent-specific branch runs for an agent name
SelectScraper(agent) ==
    CASE agent = "axios" -> "axios"
      [] agent = "cheerio" -> "cheerio"
      [] agent = "puppeteer" -> "puppeteer"
      [] agent = "playwright" -> "playwright"
      [] OTHER -> "invalid"

(***************************************************************************)
(* Steps shared by the actions.                                            *)
(***************************************************************************)
Return(r) ==
    /\ response' = r
    /\ pc' = "done"

\* puppeteer and playwright are started together
Invoke_Speculative(agent, u, at) ==
    /\ calls' = IF agent = "puppeteer"
                THEN calls \o <<[agent |-> "puppeteer", url |-> u],
                                [agent |-> "playwright", url |-> u]>>
                ELSE Append(calls, [agent |-> agent, url |-> u])
    /\ pc' = at

\* the escalation starts playwright where the code starts puppeteer, and puppeteer after it
Invoke_PlaywrightFirst(agent, u, at) ==
    /\ calls' = Append(calls, [agent |-> IF agent = "puppeteer" /\ Len(calls) > 0 THEN "playwright"
                                         ELSE IF agent = "playwright" /\ Len(calls) > 0
                                         THEN "puppeteer" ELSE agent,
                               url |-> u])
    /\ pc' = at

Invoke(agent, u, at) ==
    /\ calls' = Append(calls, [agent |-> agent, url |-> u])
    /\ pc' = at

Settle(o) == results' = Append(results, o)

Tick == now' = now + 1

\* the locals of POST of a request that has not arrived yet
NotArrived ==
    [pc |-> "idle",
     body |-> [url |-> Undefined, scraperAgent |-> Undefined,
               crawlDepth |-> Undefined, searchDepth |-> Undefined],
     reqUrl |-> "", url |-> Undefined, scraperAgent |-> Undefined,
     crawlDepth |-> 0, searchDepth |-> 0, strategy |-> "",
     primaryAgentError |-> Null, puppeteerError |-> Null,
     errorDetails |-> NoDetails, lastErrorTimestamp |-> 0,
     calls |-> <<>>, results |-> <<>>, response |-> NoResponse]

Init ==
    /\ pc = "idle"
    /\ body = [url |-> Undefined, scraperAgent |-> Undefined,
               crawlDepth |-> Undefined, searchDepth |-> Undefined]
    /\ reqUrl = ""
    /\ url = Undefined
    /\ scraperAgent = Undefined
    /\ crawlDepth = 0
    /\ searchDepth = 0
    /\ strategy = ""
    /\ primaryAgentError = Null
    /\ puppeteerError = Null
    /\ errorDetails = NoDetails
    /\ lastErrorTimestamp = 0
    /\ calls = <<>>
    /\ results = <<>>
    /\ response = NoResponse
    /\ now = 1
    /\ spc = "idle"
    /\ scraper = ""
    /\ target = ""
    /\ site = NoSite
    /\ res = NoResult
    /\ browser = "null"
    /\ tab = NoTab
    /\ pending = Null
    /\ outcome = Null
    /\ trace = <<>>
    /\ cur = 1
    /\ parked = NotArrived
    /\ fn = ""
    /\ args = <<>>
    /\ value = ""

(***************************************************************************)
(* POST, from its entry to its first await of a scraper or to the          *)
(* response of a request that fails validation.                            *)
(***************************************************************************)
POST(b, ru) ==
    /\ pc = "idle"
    /\ UNCHANGED notHandlerVars
    /\ body' = b
    /\ reqUrl' = ru
    /\ scraperAgent' = b.scraperAgent
    /\ crawlDepth' = (IF TruthyNum(b.crawlDepth) THEN b.crawlDepth[1] ELSE 0)
    /\ searchDepth' = (IF TruthyNum(b.searchDepth) THEN b.searchDepth[1] ELSE 0)
    /\ Tick
    /\ UNCHANGED <<primaryAgentError, puppeteerError, results>>
    /\ LET r == ResolveUrl(b, ru)
       IN  /\ url' = r.url
           /\ IF r.throws
              THEN /\ Return(Json(500, [error |-> "An unexpected error occurred on the server.",
                                        details |-> "URI malformed", timestamp |-> now]))
                   /\ UNCHANGED <<strategy, errorDetails, lastErrorTimestamp, calls>>
              ELSE IF UrlMissing(r.url)
              THEN /\ Return(Json(400, [error |-> "URL is required"]))
                   /\ UNCHANGED <<strategy, errorDetails, lastErrorTimestamp, calls>>
              ELSE IF ~UrlFormatOk(r.url[1])
              THEN /\ Return(Json(400, [error |-> "Invalid URL format. Must start with http:// or https://"]))
                   /\ UNCHANGED <<strategy, errorDetails, lastErrorTimestamp, calls>>
              ELSE IF TruthyStr(b.scraperAgent)
              THEN /\ strategy' = b.scraperAgent[1]
                   /\ UNCHANGED <<errorDetails, lastErrorTimestamp>>
                   /\ IF SelectScraper(b.scraperAgent[1]) # "invalid"
                      THEN /\ Invoke(SelectScraper(b.scraperAgent[1]), r.url[1], "agent")
                           /\ UNCHANGED response
                      ELSE /\ Return(Json(400, [error |-> InvalidAgentMessage(b.scraperAgent[1])]))
                           /\ UNCHANGED calls
              ELSE /\ errorDetails' = NoDetails
                   /\ lastErrorTimestamp' = now
                   /\ Invoke("axios", r.url[1], "axios")
                   /\ UNCHANGED <<strategy, response>>

\* request.json() rejects: the body is not JSON
POSTInvalidJson(ru) ==
    /\ pc = "idle"
    /\ UNCHANGED notHandlerVars
    /\ reqUrl' = ru
    /\ Tick
    /\ Return(Json(400, [error |-> "Invalid JSON request body", timestamp |-> now]))
    /\ UNCHANGED <<body, url, scraperAgent, crawlDepth, searchDepth, strategy,
                   primaryAgentError, puppeteerError, errorDetails,
                   lastErrorTimestamp, calls, results>>

(***************************************************************************)
(* The agent-specific branch: the specified scraper, and the fallback to   *)
(* Puppeteer and then Playwright when axios or cheerio reports that the    *)
(* page requires JavaScript.                                               *)
(***************************************************************************)
\* the fallback is taken on any error of axios or cheerio
SmartFallback_AnyError(agent, error) == agent \in {"axios", "cheerio"}

\* the fallback is taken for axios alone
SmartFallback_AxiosOnly(agent, error) ==
    agent = "axios" /\ error.kind = "JavaScriptRequiredError"

\* the fallback is taken whenever the specified agent fails
SmartFallback_AnyAgent(agent, error) == error.kind # "resolved"

SmartFallback(agent, error) ==
    agent \in {"axios", "cheerio"} /\ error.kind = "JavaScriptRequiredError"

PuppeteerFallbackStrategy(agent) == "puppeteer (fallback from " \o agent \o ")"

\* the label leaves out the puppeteer attempt
PlaywrightFallbackStrategy_Short(agent) == "playwright (fallback from " \o agent \o ")"

\* the label names the two browsers in the other order
PlaywrightFallbackStrategy_Swapped(agent) ==
    "puppeteer (fallback from playwright after " \o agent \o ")"

PlaywrightFallbackStrategy(agent) ==
    "playwright (fallback from puppeteer after " \o agent \o ")"

\* the specified agent failed and there is no fallback
AgentFailedBody(agent, error) ==
    [error |-> "Scraping with " \o agent \o " failed: " \o error.message,
     strategy |-> agent, timestamp |-> now]

PuppeteerFallbackBody(agent, data, error) ==
    [scrapedText |-> formatToMarkdown(data),
     strategy |-> PuppeteerFallbackStrategy(agent),
     finalUrl |-> data.finalUrl, images |-> data.images, timestamp |-> now,
     originalAgentError |-> error.message]

\* the message of the specified agent is reported for puppeteer too
PlaywrightFallbackBody_OneError(agent, data, error, pptrError) ==
    [scrapedText |-> formatToMarkdown(data),
     strategy |-> PlaywrightFallbackStrategy(agent),
     finalUrl |-> data.finalUrl, images |-> data.images, timestamp |-> now,
     originalAgentError |-> error.message,
     puppeteerFallbackError |-> error.message]

PlaywrightFallbackBody(agent, data, error, pptrError) ==
    [scrapedText |-> formatToMarkdown(data),
     strategy |-> PlaywrightFallbackStrategy(agent),
     finalUrl |-> data.finalUrl, images |-> data.images, timestamp |-> now,
     originalAgentError |-> error.message,
     puppeteerFallbackError |-> pptrError.message]

\* the playwright error is reported in the place of the puppeteer error
FallbackFailedBody_Dup(agent, error, pptrError, playwrightError) ==
    [error |-> "Scraping with " \o agent
                 \o " (JS error), Puppeteer (fallback), and Playwright (fallback) all failed. Playwright error: "
                 \o playwrightError.message,
     strategy |-> "playwright (fallback)",
     originalAgentError |-> error.message,
     puppeteerError |-> playwrightError.message,
     playwrightError |-> playwrightError.message,
     timestamp |-> now]

\* the specified agent, Puppeteer and Playwright all failed
FallbackFailedBody(agent, error, pptrError, playwrightError) ==
    [error |-> "Scraping with " \o agent
                 \o " (JS error), Puppeteer (fallback), and Playwright (fallback) all failed. Playwright error: "
                 \o playwrightError.message,
     strategy |-> "playwright (fallback)",
     originalAgentError |-> error.message,
     puppeteerError |-> pptrError.message,
     playwrightError |-> playwrightError.message,
     timestamp |-> now]

AgentSettles ==
    /\ pc = "agent"
    /\ UNCHANGED notHandlerVars
    /\ \E o \in Scrape(calls[1].agent, url[1]) :
        /\ Settle(o)
        /\ Tick
        /\ UNCHANGED <<body, reqUrl, url, scraperAgent, crawlDepth, searchDepth,
                       puppeteerError, errorDetails, lastErrorTimestamp>>
        /\ IF o.kind = "resolved"
           THEN /\ Return(Json(200, ScrapedBody(o.data, strategy)))
                /\ UNCHANGED <<strategy, primaryAgentError, calls>>
           ELSE /\ primaryAgentError' = o
                /\ IF SmartFallback(scraperAgent[1], o)
                   THEN /\ strategy' = "puppeteer"
                        /\ Invoke("puppeteer", url[1], "agentPuppeteer")
                        /\ UNCHANGED response
                   ELSE /\ Return(Json(500, AgentFailedBody(scraperAgent[1], o)))
                        /\ UNCHANGED <<strategy, calls>>

AgentPuppeteerSettles ==
    /\ pc = "agentPuppeteer"
    /\ UNCHANGED notHandlerVars
    /\ \E o \in scrapeWithPuppeteer(url[1]) :
        /\ Settle(o)
        /\ Tick
        /\ UNCHANGED <<body, reqUrl, url, scraperAgent, crawlDepth, searchDepth,
                       primaryAgentError, errorDetails, lastErrorTimestamp>>
        /\ IF o.kind = "resolved"
           THEN /\ Return(Json(200,
                      PuppeteerFallbackBody(scraperAgent[1], o.data, primaryAgentError)))
                /\ UNCHANGED <<strategy, puppeteerError, calls>>
           ELSE /\ puppeteerError' = o
                /\ strategy' = "playwright"
                /\ Invoke("playwright", url[1], "agentPlaywright")
                /\ UNCHANGED response

AgentPlaywrightSettles ==
    /\ pc = "agentPlaywright"
    /\ UNCHANGED notHandlerVars
    /\ \E o \in scrapeWithPlaywright(url[1]) :
        /\ Settle(o)
        /\ Tick
        /\ UNCHANGED <<body, reqUrl, url, scraperAgent, crawlDepth, searchDepth, strategy,
                       primaryAgentError, puppeteerError, errorDetails,
                       lastErrorTimestamp, calls>>
        /\ IF o.kind = "resolved"
           THEN Return(Json(200,
                    PlaywrightFallbackBody(scraperAgent[1], o.data, primaryAgentError,
                                           puppeteerError)))
           ELSE Return(Json(500,
                    FallbackFailedBody(scraperAgent[1], primaryAgentError,
                                       puppeteerError, o)))

(***************************************************************************)
(* The fallback chain of a request that names no agent.                    *)
(***************************************************************************)
\* the error is tested against a class that axios never throws
SkipsCheerio_WrongClass(axiosError) == axiosError.kind = "SyntaxError"

SkipsCheerio(axiosError) == axiosError.kind = "JavaScriptRequiredError"

\* every scraper of the chain failed
AllFailedBody(details, timestamp) ==
    [error |-> "All scraping strategies failed.", details |-> details,
     timestamp |-> timestamp]

\* a skipped cheerio is recorded in errorDetails as a failed attempt
AxiosSettles_LogsSkip ==
    /\ pc = "axios"
    /\ UNCHANGED notHandlerVars
    /\ \E o \in scrapeWithAxios(url[1]) :
        /\ Settle(o)
        /\ Tick
        /\ UNCHANGED <<body, reqUrl, url, scraperAgent, crawlDepth, searchDepth, strategy,
                       primaryAgentError, puppeteerError>>
        /\ IF o.kind = "resolved"
           THEN /\ Return(Json(200, ScrapedBody(o.data, "axios")))
                /\ UNCHANGED <<errorDetails, lastErrorTimestamp, calls>>
           ELSE /\ lastErrorTimestamp' = now
                /\ UNCHANGED response
                /\ IF SkipsCheerio(o)
                   THEN /\ errorDetails' = [errorDetails EXCEPT
                                               !["axiosError"] = Attempt(o),
                                               !["cheerioError"] = Attempt(Error("Skipped."))]
                        /\ Invoke("puppeteer", url[1], "puppeteer")
                   ELSE /\ errorDetails' = [errorDetails EXCEPT !["axiosError"] = Attempt(o)]
                        /\ Invoke("cheerio", url[1], "cheerio")

AxiosSettles ==
    /\ pc = "axios"
    /\ UNCHANGED notHandlerVars
    /\ \E o \in scrapeWithAxios(url[1]) :
        /\ Settle(o)
        /\ Tick
        /\ UNCHANGED <<body, reqUrl, url, scraperAgent, crawlDepth, searchDepth, strategy,
                       primaryAgentError, puppeteerError>>
        /\ IF o.kind = "resolved"
           THEN /\ Return(Json(200, ScrapedBody(o.data, "axios")))
                /\ UNCHANGED <<errorDetails, lastErrorTimestamp, calls>>
           ELSE /\ lastErrorTimestamp' = now
                /\ errorDetails' = [errorDetails EXCEPT !["axiosError"] = Attempt(o)]
                /\ UNCHANGED response
                /\ IF SkipsCheerio(o)
                   THEN Invoke("puppeteer", url[1], "puppeteer")
                   ELSE Invoke("cheerio", url[1], "cheerio")

\* a plain error of cheerio ends the request
CheerioSettles_GivesUp ==
    /\ pc = "cheerio"
    /\ UNCHANGED notHandlerVars
    /\ \E o \in scrapeWithCheerio(url[1]) :
        /\ Settle(o)
        /\ Tick
        /\ UNCHANGED <<body, reqUrl, url, scraperAgent, crawlDepth, searchDepth, strategy,
                       primaryAgentError, puppeteerError>>
        /\ IF o.kind = "resolved"
           THEN /\ Return(Json(200, ScrapedBody(o.data, "cheerio")))
                /\ UNCHANGED <<errorDetails, lastErrorTimestamp, calls>>
           ELSE /\ lastErrorTimestamp' = now
                /\ errorDetails' = [errorDetails EXCEPT !["cheerioError"] = Attempt(o)]
                /\ IF o.kind = "JavaScriptRequiredError"
                   THEN /\ Invoke("puppeteer", url[1], "puppeteer")
                        /\ UNCHANGED response
                   ELSE /\ Return(Json(500, AllFailedBody(errorDetails', lastErrorTimestamp')))
                        /\ UNCHANGED calls

CheerioSettles ==
    /\ pc = "cheerio"
    /\ UNCHANGED notHandlerVars
    /\ \E o \in scrapeWithCheerio(url[1]) :
        /\ Settle(o)
        /\ Tick
        /\ UNCHANGED <<body, reqUrl, url, scraperAgent, crawlDepth, searchDepth, strategy,
                       primaryAgentError, puppeteerError>>
        /\ IF o.kind = "resolved"
           THEN /\ Return(Json(200, ScrapedBody(o.data, "cheerio")))
                /\ UNCHANGED <<errorDetails, lastErrorTimestamp, calls>>
           ELSE /\ lastErrorTimestamp' = now
                /\ errorDetails' = [errorDetails EXCEPT !["cheerioError"] = Attempt(o)]
                /\ UNCHANGED response
                /\ Invoke("puppeteer", url[1], "puppeteer")

\* the strategy of the response tells that a scraper asked for JavaScript
PuppeteerSettles_RecordsSignal ==
    /\ pc = "puppeteer"
    /\ UNCHANGED notHandlerVars
    /\ \E o \in scrapeWithPuppeteer(url[1]) :
        /\ Settle(o)
        /\ Tick
        /\ UNCHANGED <<body, reqUrl, url, scraperAgent, crawlDepth, searchDepth, strategy,
                       primaryAgentError, puppeteerError>>
        /\ IF o.kind = "resolved"
           THEN /\ Return(Json(200, ScrapedBody(o.data,
                        IF \E i \in 1..Len(results) : results[i].kind = "JavaScriptRequiredError"
                        THEN "puppeteer (after JavaScript required)"
                        ELSE "puppeteer")))
                /\ UNCHANGED <<errorDetails, lastErrorTimestamp, calls>>
           ELSE /\ lastErrorTimestamp' = now
                /\ errorDetails' = [errorDetails EXCEPT !["puppeteerError"] = Attempt(o)]
                /\ UNCHANGED response
                /\ Invoke("playwright", url[1], "playwright")

\* the success branch does not return: the chain goes on to playwright
PuppeteerSettles_NoReturn ==
    /\ pc = "puppeteer"
    /\ UNCHANGED notHandlerVars
    /\ \E o \in scrapeWithPuppeteer(url[1]) :
        /\ Settle(o)
        /\ Tick
        /\ UNCHANGED <<body, reqUrl, url, scraperAgent, crawlDepth, searchDepth, strategy,
                       primaryAgentError, puppeteerError, response>>
        /\ Invoke("playwright", url[1], "playwright")
        /\ IF o.kind = "resolved"
           THEN UNCHANGED <<errorDetails, lastErrorTimestamp>>
           ELSE /\ lastErrorTimestamp' = now
                /\ errorDetails' = [errorDetails EXCEPT !["puppeteerError"] = Attempt(o)]

PuppeteerSettles ==
    /\ pc = "puppeteer"
    /\ UNCHANGED notHandlerVars
    /\ \E o \in scrapeWithPuppeteer(url[1]) :
        /\ Settle(o)
        /\ Tick
        /\ UNCHANGED <<body, reqUrl, url, scraperAgent, crawlDepth, searchDepth, strategy,
                       primaryAgentError, puppeteerError>>
        /\ IF o.kind = "resolved"
           THEN /\ Return(Json(200, ScrapedBody(o.data, "puppeteer")))
                /\ UNCHANGED <<errorDetails, lastErrorTimestamp, calls>>
           ELSE /\ lastErrorTimestamp' = now
                /\ errorDetails' = [errorDetails EXCEPT !["puppeteerError"] = Attempt(o)]
                /\ UNCHANGED response
                /\ Invoke("playwright", url[1], "playwright")

\* a failed playwright is tried once more before the chain gives up
PlaywrightSettles_Retries ==
    /\ pc = "playwright"
    /\ UNCHANGED notHandlerVars
    /\ \E o \in scrapeWithPlaywright(url[1]) :
        /\ Settle(o)
        /\ Tick
        /\ UNCHANGED <<body, reqUrl, url, scraperAgent, crawlDepth, searchDepth, strategy,
                       primaryAgentError, puppeteerError>>
        /\ IF o.kind = "resolved"
           THEN /\ Return(Json(200, ScrapedBody(o.data, "playwright")))
                /\ UNCHANGED <<errorDetails, lastErrorTimestamp, calls>>
           ELSE /\ lastErrorTimestamp' = now
                /\ errorDetails' = [errorDetails EXCEPT !["playwrightError"] = Attempt(o)]
                /\ IF calls[Len(calls) - 1].agent = "playwright"
                   THEN /\ Return(Json(500, AllFailedBody(errorDetails', lastErrorTimestamp')))
                        /\ UNCHANGED calls
                   ELSE /\ Invoke("playwright", url[1], "playwright")
                        /\ UNCHANGED response

PlaywrightSettles ==
    /\ pc = "playwright"
    /\ UNCHANGED notHandlerVars
    /\ \E o \in scrapeWithPlaywright(url[1]) :
        /\ Settle(o)
        /\ Tick
        /\ UNCHANGED <<body, reqUrl, url, scraperAgent, crawlDepth, searchDepth, strategy,
                       primaryAgentError, puppeteerError, calls>>
        /\ IF o.kind = "resolved"
           THEN /\ Return(Json(200, ScrapedBody(o.data, "playwright")))
                /\ UNCHANGED <<errorDetails, lastErrorTimestamp>>
           ELSE /\ lastErrorTimestamp' = now
                /\ errorDetails' = [errorDetails EXCEPT !["playwrightError"] = Attempt(o)]
                /\ Return(Json(500, AllFailedBody(errorDetails', lastErrorTimestamp')))

Next ==
    \/ \E b \in Bodies, ru \in ReqUrls : POST(b, ru)
    \/ \E ru \in ReqUrls : POSTInvalidJson(ru)
    \/ AgentSettles
    \/ AgentPuppeteerSettles
    \/ AgentPlaywrightSettles
    \/ AxiosSettles
    \/ CheerioSettles
    \/ PuppeteerSettles
    \/ PlaywrightSettles

Spec == Init /\ [][Next]_vars

(***************************************************************************)
(* One request under the assumption that every call of a scraper settles:  *)
(* the promise the handler awaits is eventually fulfilled or rejected.     *)
(***************************************************************************)
\* the handler resumes from the await of a scraper
ScraperSettles ==
    \/ AgentSettles
    \/ AgentPuppeteerSettles
    \/ AgentPlaywrightSettles
    \/ AxiosSettles
    \/ CheerioSettles
    \/ PuppeteerSettles
    \/ PlaywrightSettles

LiveSpec == Init /\ [][Next]_vars /\ WF_vars(ScraperSettles)

(***************************************************************************)
(* One call of a scraper.  The call is suspended in one await at a time    *)
(* (spc names it); an action is the code from the settling of that await   *)
(* to the next await or to the return of the call.  trace lists the awaits *)
(* of the call and how each settled.                                       *)
(***************************************************************************)
Awaited(call) == [call |-> call, settled |-> "pending"]

SettledAs(how) == [trace EXCEPT ![Len(trace)].settled = how]

\* the awaited call is fulfilled and the scraper awaits the next one
Proceed(next) ==
    /\ spc' = next
    /\ trace' = Append(SettledAs("fulfilled"), Awaited(next))

\* the call of the scraper settles with o
Finish(o, how) ==
    /\ outcome' = o
    /\ spc' = "returned"
    /\ trace' = SettledAs(how)

FirstAwait(name) ==
    CASE name = "axios" -> "axios.get"
      [] name = "cheerio" -> "fetch"
      [] name = "puppeteer" -> "puppeteer.launch"
      [] name = "playwright" -> "chromium.launch"

\* scrapeWithAxios(u), scrapeWithCheerio(u), scrapeWithPuppeteer(u) or
\* scrapeWithPlaywright(u) is called, on a web where u is answered by site s
Call ==
    /\ spc = "idle"
    /\ \E name \in Agents, u \in Targets :
           \E s \in Sites(u) :
               /\ scraper' = name
               /\ target' = u
               /\ site' = s
               /\ spc' = FirstAwait(name)
               /\ trace' = <<Awaited(FirstAwait(name))>>
    /\ UNCHANGED <<res, browser, tab, pending, outcome, notScraperVars>>

(***************************************************************************)
(* scrapeWithAxios.                                                        *)
(***************************************************************************)
ContentTypes == {"text/html; charset=UTF-8", "application/json", ""}

\* the responses axios.get can be fulfilled with for a site
AxiosResponses(u, s) ==
    {[status |-> 200, contentType |-> c, responseUrl |-> r, data |-> s.served] :
        c \in ContentTypes, r \in {s.finalUrl} \cup (IF s.finalUrl = u THEN {""} ELSE {})}

\* the errors axios.get can be rejected with
AxiosErrors ==
    {AxiosError(404, "Not Found", ""), AxiosError(0, "", ""), AxiosError(0, "", "ECONNABORTED")}

AxiosGetSettles ==
    /\ spc = "axios.get"
    /\ \/ \E r \in AxiosResponses(target, site) :
              /\ res' = [status |-> r.status, contentType |-> r.contentType,
                         responseUrl |-> r.responseUrl]
              /\ LET ended == AxiosExtract(target, r)
                 IN  Finish(IF ended.kind = "resolved" THEN ended
                            ELSE AxiosCatch(target, ended), "fulfilled")
       \/ \E error \in AxiosErrors :
              /\ res' = [status |-> error.status, contentType |-> "", responseUrl |-> ""]
              /\ Finish(AxiosCatch(target, error), "rejected")
    /\ UNCHANGED <<scraper, target, site, browser, tab, pending, notScraperVars>>

(***************************************************************************)
(* scrapeWithCheerio.                                                      *)
(***************************************************************************)
\* the responses fetch can be fulfilled with for a site
FetchResponses(s) ==
    {[status |-> 200, statusText |-> "OK", url |-> s.finalUrl, contentType |-> c] :
        c \in ContentTypes}
    \cup {[status |-> 404, statusText |-> "Not Found", url |-> s.finalUrl,
           contentType |-> "text/html; charset=UTF-8"]}

\* the body of a response is read whatever its status
FetchSettles_IgnoresStatus ==
    /\ spc = "fetch"
    /\ \/ \E fetchResponse \in FetchResponses(site) :
              /\ res' = [status |-> fetchResponse.status,
                         contentType |-> fetchResponse.contentType,
                         responseUrl |-> fetchResponse.url]
              /\ Proceed("fetchResponse.text")
              /\ UNCHANGED outcome
       \/ /\ Finish(CheerioCatch(target, Error("fetch failed")), "rejected")
          /\ UNCHANGED res
    /\ UNCHANGED <<scraper, target, site, browser, tab, pending, notScraperVars>>

FetchSettles ==
    /\ spc = "fetch"
    /\ \/ \E fetchResponse \in FetchResponses(site) :
              /\ res' = [status |-> fetchResponse.status,
                         contentType |-> fetchResponse.contentType,
                         responseUrl |-> fetchResponse.url]
              /\ IF fetchResponse.status >= 200 /\ fetchResponse.status < 300
                 THEN /\ Proceed("fetchResponse.text")
                      /\ UNCHANGED outcome
                 ELSE Finish(CheerioCatch(target,
                                 Error("Failed to fetch URL with Cheerio: "
                                           \o ToString(fetchResponse.status) \o " "
                                           \o fetchResponse.statusText)), "fulfilled")
       \/ /\ Finish(CheerioCatch(target, Error("fetch failed")), "rejected")
          /\ UNCHANGED res
    /\ UNCHANGED <<scraper, target, site, browser, tab, pending, notScraperVars>>

TextSettles ==
    /\ spc = "fetchResponse.text"
    /\ \/ LET ended == CheerioExtract(target, res.responseUrl, site.served)
          IN  Finish(IF ended.kind = "resolved" THEN ended
                     ELSE CheerioCatch(target, ended), "fulfilled")
       \/ Finish(CheerioCatch(target, Error("terminated")), "rejected")
    /\ UNCHANGED <<scraper, target, site, res, browser, tab, pending, notScraperVars>>

(***************************************************************************)
(* scrapeWithPuppeteer and scrapeWithPlaywright.  A rejected await, or a   *)
(* throw of the try block, is caught and wrapped; the finally block then   *)
(* closes the browser if there is one, and the call settles after that.    *)
(***************************************************************************)
\* the browser is closed only when the try block returned
Finally_OnlyOnReturn(result, how) ==
    IF browser = "null" \/ result.kind # "resolved"
    THEN /\ Finish(result, how)
         /\ UNCHANGED pending
    ELSE /\ pending' = result
         /\ spc' = "browser.close"
         /\ trace' = Append(SettledAs(how), Awaited("browser.close"))
         /\ UNCHANGED outcome

\* the finally block does not close the browser
Finally_LeavesOpen(result, how) ==
    /\ Finish(result, how)
    /\ UNCHANGED pending

\* the finally block, entered with what the try or the catch block ended with
Finally(result, how) ==
    IF browser = "null"
    THEN /\ Finish(result, how)
         /\ UNCHANGED pending
    ELSE /\ pending' = result
         /\ spc' = "browser.close"
         /\ trace' = Append(SettledAs(how), Awaited("browser.close"))
         /\ UNCHANGED outcome

\* the error an await of the browser is rejected with
Rejection(call) ==
    Error(CASE call \in {"puppeteer.launch", "chromium.launch"}
                   -> "Failed to launch the browser process!"
            [] call = "page.goto" -> "Navigation timeout of 60000 ms exceeded"
            [] call \in {"page.evaluate (remove)", "page.evaluate (extract)"}
                   -> "Execution context was destroyed, most likely because of a navigation."
            [] OTHER -> "Target closed")

\* the await the scraper is suspended in settles: fulfilled, it goes on to next
Settles(next) ==
    \E fulfilled \in BOOLEAN :
        IF fulfilled
        THEN /\ Proceed(next)
             /\ UNCHANGED <<pending, outcome>>
        ELSE Finally(RenderCatch(scraper, target, Rejection(spc)), "rejected")

LaunchSettles ==
    /\ spc \in {"puppeteer.launch", "chromium.launch"}
    /\ \E fulfilled \in BOOLEAN :
           IF fulfilled
           THEN /\ browser' = "open"
                /\ Proceed(IF scraper = "puppeteer" THEN "browser.newPage"
                           ELSE "browser.newContext")
                /\ UNCHANGED <<pending, outcome>>
           ELSE /\ Finally(RenderCatch(scraper, target, Rejection(spc)), "rejected")
                /\ UNCHANGED browser
    /\ UNCHANGED <<scraper, target, site, res, tab, notScraperVars>>

NewContextSettles ==
    /\ spc = "browser.newContext"
    /\ Settles("context.newPage")
    /\ UNCHANGED <<scraper, target, site, res, browser, tab, notScraperVars>>

NewPageSettles ==
    /\ spc \in {"browser.newPage", "context.newPage"}
    /\ Settles(IF scraper = "puppeteer" THEN "page.setViewport" ELSE "page.goto")
    /\ UNCHANGED <<scraper, target, site, res, browser, tab, notScraperVars>>

SetViewportSettles ==
    /\ spc = "page.setViewport"
    /\ Settles("page.setUserAgent")
    /\ UNCHANGED <<scraper, target, site, res, browser, tab, notScraperVars>>

SetUserAgentSettles ==
    /\ spc = "page.setUserAgent"
    /\ Settles("page.goto")
    /\ UNCHANGED <<scraper, target, site, res, browser, tab, notScraperVars>>

GotoSettles ==
    /\ spc = "page.goto"
    /\ \E fulfilled \in BOOLEAN :
           IF fulfilled
           THEN /\ tab' = [url |-> site.finalUrl, document |-> site.rendered]
                /\ Proceed("page.evaluate (remove)")
                /\ UNCHANGED <<pending, outcome>>
           ELSE /\ Finally(RenderCatch(scraper, target, Rejection(spc)), "rejected")
                /\ UNCHANGED tab
    /\ UNCHANGED <<scraper, target, site, res, browser, notScraperVars>>

\* an error of the first evaluate is swallowed and the page is read as it is
RemoveSettles_GoesOn ==
    /\ spc = "page.evaluate (remove)"
    /\ \E fulfilled \in BOOLEAN :
           /\ tab' = IF fulfilled THEN [tab EXCEPT !.document = Remove(@, selectorsToRemove)]
                     ELSE tab
           /\ spc' = "page.evaluate (extract)"
           /\ trace' = Append(SettledAs(IF fulfilled THEN "fulfilled" ELSE "rejected"),
                              Awaited("page.evaluate (extract)"))
           /\ UNCHANGED <<pending, outcome>>
    /\ UNCHANGED <<scraper, target, site, res, browser, notScraperVars>>

RemoveSettles ==
    /\ spc = "page.evaluate (remove)"
    /\ \E fulfilled \in BOOLEAN :
           IF fulfilled
           THEN /\ tab' = [tab EXCEPT !.document = Remove(@, selectorsToRemove)]
                /\ Proceed("page.evaluate (extract)")
                /\ UNCHANGED <<pending, outcome>>
           ELSE /\ Finally(RenderCatch(scraper, target, Rejection(spc)), "rejected")
                /\ UNCHANGED tab
    /\ UNCHANGED <<scraper, target, site, res, browser, notScraperVars>>

ExtractSettles ==
    /\ spc = "page.evaluate (extract)"
    /\ \E fulfilled \in BOOLEAN :
           IF fulfilled
           THEN LET ended == RenderExtract(scraper, Extracted(tab.document), tab.url)
                IN  Finally(IF ended.kind = "resolved" THEN ended
                            ELSE RenderCatch(scraper, target, ended), "fulfilled")
           ELSE Finally(RenderCatch(scraper, target, Rejection(spc)), "rejected")
    /\ UNCHANGED <<scraper, target, site, res, browser, tab, notScraperVars>>

\* an error of browser.close() replaces what the call would have settled with;
\* whether the browser is gone after such an error is not known
CloseSettles ==
    /\ spc = "browser.close"
    /\ \/ /\ browser' = "closed"
          /\ Finish(pending, "fulfilled")
       \/ /\ browser' \in {"open", "closed"}
          /\ Finish(Error(IF scraper = "puppeteer"
                          THEN "Protocol error (Browser.close): Target closed."
                          ELSE "browser.close: Target page, context or browser has been closed"),
                    "rejected")
    /\ UNCHANGED <<scraper, target, site, res, tab, pending, notScraperVars>>

ScrapeNext ==
    \/ Call
    \/ AxiosGetSettles
    \/ FetchSettles
    \/ TextSettles
    \/ LaunchSettles
    \/ NewContextSettles
    \/ NewPageSettles
    \/ SetViewportSettles
    \/ SetUserAgentSettles
    \/ GotoSettles
    \/ RemoveSettles
    \/ ExtractSettles
    \/ CloseSettles

ScrapeSpec == Init /\ [][ScrapeNext]_vars

(***************************************************************************)
(* Calls of cleanText and of new URL(src, base) on their own.  A text is   *)
(* given as the parts it is written from: words, white space, elements,    *)
(* and script and style blocks; `visible` is what a part reads as once     *)
(* blocks are dropped and each tag gives way to a space.  A reference is   *)
(* given by its kind, the number of its leading "../" and the rest of it;  *)
(* a base by its origin, the directories of its path and its file.         *)
(***************************************************************************)
MaxParts == 3        \* a text is written from 0..MaxParts parts
MaxUps == 2          \* a relative reference starts with 0..MaxUps segments ".."

Part(text, visible) == [text |-> text, visible |-> visible]

Parts ==
    {Part("Hello", "Hello"),
     Part(" ", " "), Part("\t", "\t"), Part("\n  ", "\n  "),
     Part("<p>Hello</p>", " Hello "), Part("<p>World</p>", " World "),
     Part("<br/>", " "),
     Part("<script>x</script>", ""),
     Part("<SCRIPT type=\"text/javascript\">if (a < b) t = \"<p>\";</SCRIPT>", ""),
     Part("<style>.b { color: red; }</style>", "")}

Texts == UNION {[1..n -> Parts] : n \in 0..MaxParts}

TextOf(parts) == Concat([i \in 1..Len(parts) |-> parts[i].text], 1, Len(parts))

VisibleOf(parts) == Concat([i \in 1..Len(parts) |-> parts[i].visible], 1, Len(parts))

\* cleanText(text) is called
CallCleanText ==
    /\ fn = ""
    /\ \E parts \in Texts :
           /\ fn' = "cleanText"
           /\ args' = parts
           /\ value' = cleanText(TextOf(parts))
    /\ UNCHANGED <<handlerVars, scraperVars, loopVars>>

RECURSIVE Ups(_)
Ups(k) == IF k = 0 THEN "" ELSE "../" \o Ups(k - 1)

Ref(kind, ups, rest) == [kind |-> kind, ups |-> ups, rest |-> rest]

References ==
    {Ref("absolute", 0, r) : r \in {"https://cdn.io/x.png", "http://example.com/img.png"}}
    \cup {Ref("root", 0, r) : r \in {"/logo.svg", "/images/pic.jpg"}}
    \cup {Ref("relative", k, r) : k \in 0..MaxUps, r \in {"images/pic.jpg", "pic.jpg"}}

SrcOf(ref) == Ups(ref.ups) \o ref.rest

Base(origin, dirs, file) == [origin |-> origin, dirs |-> dirs, file |-> file]

Bases ==
    {Base("http://example.com", <<"path">>, "page.html"),
     Base("http://example.com", <<"puppeteer", "final", "path">>, "index.html"),
     Base("https://b.io", <<"blog", "2024">>, "post"),
     Base("https://b.io", <<>>, "")}

UrlOf(base) == base.origin \o JoinPath(base.dirs) \o "/" \o base.file

\* new URL(src, base).href is evaluated
CallNewUrl ==
    /\ fn = ""
    /\ \E ref \in References, base \in Bases :
           /\ fn' = "new URL"
           /\ args' = <<ref, base>>
           /\ value' = Href(SrcOf(ref), UrlOf(base))
    /\ UNCHANGED <<handlerVars, scraperVars, loopVars>>

UtilNext ==
    \/ CallCleanText
    \/ CallNewUrl

UtilSpec == Init /\ [][UtilNext]_vars

(***************************************************************************)
(* Two requests in one server.  POST is an async function: at each await   *)
(* the event loop may run the code of the other request.  The variables of *)
(* the handler are the locals of the request that is running (cur);        *)
(* parked holds the locals of the other one.  The module has no variable   *)
(* of its own, so what the two requests share is the clock.                *)
(***************************************************************************)
\* the locals of POST of the running request
Locals ==
    [pc |-> pc, body |-> body, reqUrl |-> reqUrl, url |-> url,
     scraperAgent |-> scraperAgent, crawlDepth |-> crawlDepth,
     searchDepth |-> searchDepth, strategy |-> strategy,
     primaryAgentError |-> primaryAgentError, puppeteerError |-> puppeteerError,
     errorDetails |-> errorDetails, lastErrorTimestamp |-> lastErrorTimestamp,
     calls |-> calls, results |-> results, response |-> response]

\* errorDetails belongs to the module: both requests write the same object
Switch_SharedLog ==
    /\ pc # "idle"
    /\ parked.pc # "done"
    /\ cur' = 3 - cur
    /\ parked' = Locals
    /\ pc' = parked.pc
    /\ body' = parked.body
    /\ reqUrl' = parked.reqUrl
    /\ url' = parked.url
    /\ scraperAgent' = parked.scraperAgent
    /\ crawlDepth' = parked.crawlDepth
    /\ searchDepth' = parked.searchDepth
    /\ strategy' = parked.strategy
    /\ primaryAgentError' = parked.primaryAgentError
    /\ puppeteerError' = parked.puppeteerError
    /\ lastErrorTimestamp' = parked.lastErrorTimestamp
    /\ calls' = parked.calls
    /\ results' = parked.results
    /\ response' = parked.response
    /\ UNCHANGED <<errorDetails, now, scraperVars, utilVars>>

\* the running request is suspended in an await, or has returned, and the
\* event loop goes on with the other request
Switch ==
    /\ pc # "idle"
    /\ parked.pc # "done"
    /\ cur' = 3 - cur
    /\ parked' = Locals
    /\ pc' = parked.pc
    /\ body' = parked.body
    /\ reqUrl' = parked.reqUrl
    /\ url' = parked.url
    /\ scraperAgent' = parked.scraperAgent
    /\ crawlDepth' = parked.crawlDepth
    /\ searchDepth' = parked.searchDepth
    /\ strategy' = parked.strategy
    /\ primaryAgentError' = parked.primaryAgentError
    /\ puppeteerError' = parked.puppeteerError
    /\ errorDetails' = parked.errorDetails
    /\ lastErrorTimestamp' = parked.lastErrorTimestamp
    /\ calls' = parked.calls
    /\ results' = parked.results
    /\ response' = parked.response
    /\ UNCHANGED <<now, scraperVars, utilVars>>

Request(u, agent, crawl) ==
    [url |-> Some(u), scraperAgent |-> agent, crawlDepth |-> crawl, searchDepth |-> Undefined]

\* the requests that arrive first and second
Arriving(k) ==
    IF k = 1
    THEN {Request("http://a.io/p", Undefined, Some(1)),
          Request("http://a.io/p", Some("cheerio"), Undefined)}
    ELSE {Request("https://a.io", Some("axios"), Undefined),
          Request("https://a.io", Some("selenium"), Undefined)}

PairNext ==
    \/ \E b \in Arriving(cur) : POST(b, "http://localhost:3000/api/scrape")
    \/ POSTInvalidJson("http://localhost:3000/api/scrape")
    \/ AgentSettles
    \/ AgentPuppeteerSettles
    \/ AgentPlaywrightSettles
    \/ AxiosSettles
    \/ CheerioSettles
    \/ PuppeteerSettles
    \/ PlaywrightSettles
    \/ Switch

PairSpec == Init /\ [][PairNext]_vars

(***************************************************************************)
(* One request together with the calls of the scrapers it awaits.  The     *)
(* handler invokes a scraper (Invoke), the call runs await by await as in  *)
(* ScrapeSpec, and the handler resumes when the call has returned, with an *)
(* outcome of the kind the call ended with.  trace lists the awaits of     *)
(* all the calls of the request, in order.                                 *)
(***************************************************************************)
\* the pages the web serves in this specification: one with enough text and
\* one that carries a <noscript> notice and is filled in by its scripts
RequestSites(u) ==
    {[finalUrl |-> u,
      served   |-> Page(100, n, "main", <<>>, FALSE),
      rendered |-> Page(100, n, "main", <<>>, Hydrates(n))] : n \in {"none", "noscript"}}

\* the body of the scraper the handler has invoked starts to run
Start ==
    /\ Len(calls) = Len(results) + 1
    /\ spc = "idle" \/ (spc = "returned" /\ scraper # calls[Len(calls)].agent)
    /\ scraper' = calls[Len(calls)].agent
    /\ target' = calls[Len(calls)].url
    /\ IF site = NoSite
       THEN \E s \in RequestSites(calls[Len(calls)].url) : site' = s
       ELSE site' = site
    /\ spc' = FirstAwait(calls[Len(calls)].agent)
    /\ trace' = Append(trace, Awaited(FirstAwait(calls[Len(calls)].agent)))
    /\ res' = NoResult
    /\ browser' = "null"
    /\ tab' = NoTab
    /\ pending' = Null
    /\ outcome' = Null
    /\ UNCHANGED notScraperVars

\* the call the handler awaits has returned
Returned ==
    /\ spc = "returned"
    /\ Len(calls) = Len(results) + 1
    /\ scraper = calls[Len(calls)].agent

\* the handler is resumed with an outcome of the kind the call ended with
SameKind == results'[Len(results')].kind = outcome.kind

RequestNext ==
    \/ \E b \in Arriving(1) \cup Arriving(2) : POST(b, "http://localhost:3000/api/scrape")
    \/ Start
    \/ AxiosGetSettles
    \/ FetchSettles
    \/ TextSettles
    \/ LaunchSettles
    \/ NewContextSettles
    \/ NewPageSettles
    \/ SetViewportSettles
    \/ SetUserAgentSettles
    \/ GotoSettles
    \/ RemoveSettles
    \/ ExtractSettles
    \/ CloseSettles
    \/ Returned /\ AgentSettles /\ SameKind
    \/ Returned /\ AgentPuppeteerSettles /\ SameKind
    \/ Returned /\ AgentPlaywrightSettles /\ SameKind
    \/ Returned /\ AxiosSettles /\ SameKind
    \/ Returned /\ CheerioSettles /\ SameKind
    \/ Returned /\ PuppeteerSettles /\ SameKind
    \/ Returned /\ PlaywrightSettles /\ SameKind

RequestSpec == Init /\ [][RequestNext]_vars

(***************************************************************************)
(* Vocabulary of the properties.                                           *)
(***************************************************************************)
\* a scraper has been invoked and the request named no agent
AutoPath == Len(calls) > 0 /\ ~TruthyStr(scraperAgent)

\* a scraper has been invoked and the request named an agent
AgentPath == Len(calls) > 0 /\ TruthyStr(scraperAgent)

Invoked(agent) == \E i \in 1..Len(calls) : calls[i].agent = agent

Responded == pc = "done" /\ response.kind = "json"

RespondedWith(status) == Responded /\ response.status = status

HasScheme(u) ==
    \/ (Len(u) >= 7 /\ SubSeq(u, 1, 7) = "http://")
    \/ (Len(u) >= 8 /\ SubSeq(u, 1, 8) = "https://")

\* the handler got a url with a scheme it accepts
UrlAccepted == pc # "idle" /\ TruthyStr(url) /\ HasScheme(url[1])

Rank(agent) ==
    CASE agent = "axios" -> 1
      [] agent = "cheerio" -> 2
      [] agent = "puppeteer" -> 3
      [] agent = "playwright" -> 4

Failed(i) == i <= Len(results) /\ results[i].kind # "resolved"

NeedsRendering(i) == i <= Len(results) /\ results[i].kind = "JavaScriptRequiredError"

Succeeded(i) == i <= Len(results) /\ results[i].kind = "resolved"

(***************************************************************************)
(* C1: on the fallback chain, when axios rejects with                      *)
(* JavaScriptRequiredError, cheerio is never invoked in the request and    *)
(* puppeteer is the scraper invoked next.                                  *)
(***************************************************************************)
C1_AxiosJsSkipsCheerio ==
    (AutoPath /\ NeedsRendering(1))
        => /\ calls[1].agent = "axios"
           /\ ~Invoked("cheerio")
           /\ Len(calls) >= 2
           /\ calls[2].agent = "puppeteer"

C1_Witness ==
    AutoPath /\ NeedsRendering(1) /\ Len(calls) >= 2 /\ pc = "done"

(***************************************************************************)
(* C2: the fallback chain invokes scrapers only in the order axios,        *)
(* cheerio, puppeteer, playwright; a scraper after axios is invoked only   *)
(* when every scraper invoked before it in the request has failed; and a   *)
(* scraper that resolves ends the request with a 200 response, no further  *)
(* scraper being invoked.                                                  *)
(***************************************************************************)
C2_ChainOrder ==
    AutoPath
        => /\ calls[1].agent = "axios"
           /\ \A i, j \in 1..Len(calls) :
                  i < j => Rank(calls[i].agent) < Rank(calls[j].agent)
           /\ \A i \in 2..Len(calls) : \A j \in 1..(i - 1) : Failed(j)
           /\ \A j \in 1..Len(results) :
                  Succeeded(j) => RespondedWith(200) /\ Len(calls) = j

C2_Witness ==
    AutoPath /\ Len(calls) = 4 /\ Succeeded(4) /\ RespondedWith(200)

(***************************************************************************)
(* C3: when the fallback chain invokes all four scrapers and all four      *)
(* fail, the response is 500 "All scraping strategies failed." and its     *)
(* details hold one entry for each of the four scrapers, each with that    *)
(* scraper's non-empty error message and a timestamp.                      *)
(***************************************************************************)
DetailKey(agent) ==
    CASE agent = "axios" -> "axiosError"
      [] agent = "cheerio" -> "cheerioError"
      [] agent = "puppeteer" -> "puppeteerError"
      [] agent = "playwright" -> "playwrightError"

C3_AllFailed ==
    (AutoPath /\ Len(results) = 4 /\ \A i \in 1..4 : Failed(i))
        => /\ RespondedWith(500)
           /\ response.body.error = "All scraping strategies failed."
           /\ {calls[i].agent : i \in 1..4} = Agents
           /\ DOMAIN response.body.details = ErrorKeys
           /\ \A i \in 1..4 :
                  LET entry == response.body.details[DetailKey(calls[i].agent)]
                  IN  /\ entry # Undefined
                      /\ DOMAIN entry[1] = {"message", "timestamp"}
                      /\ entry[1].message = results[i].message
                      /\ entry[1].message # ""
                      /\ entry[1].timestamp \in 1..now

C3_Witness ==
    AutoPath /\ Len(results) = 4 /\ (\A i \in 1..4 : Failed(i)) /\ RespondedWith(500)

(***************************************************************************)
(* C4: when the named agent is axios or cheerio and it rejects with        *)
(* JavaScriptRequiredError: if puppeteer then resolves, playwright is not  *)
(* invoked and the strategy of the 200 response is "puppeteer (fallback    *)
(* from <agent>)"; if puppeteer fails and playwright resolves, the         *)
(* strategy is "playwright (fallback from puppeteer after <agent>)".       *)
(***************************************************************************)
C4_PuppeteerLabel ==
    [axios |-> "puppeteer (fallback from axios)",
     cheerio |-> "puppeteer (fallback from cheerio)"]

C4_PlaywrightLabel ==
    [axios |-> "playwright (fallback from puppeteer after axios)",
     cheerio |-> "playwright (fallback from puppeteer after cheerio)"]

C4_FallbackLabels ==
    (AgentPath /\ scraperAgent[1] \in {"axios", "cheerio"} /\ NeedsRendering(1))
        => /\ Succeeded(2)
               => /\ RespondedWith(200)
                  /\ ~Invoked("playwright")
                  /\ response.body.strategy = C4_PuppeteerLabel[scraperAgent[1]]
           /\ (Failed(2) /\ Succeeded(3))
               => /\ RespondedWith(200)
                  /\ response.body.strategy = C4_PlaywrightLabel[scraperAgent[1]]

C4_Witness ==
    /\ AgentPath /\ scraperAgent[1] \in {"axios", "cheerio"}
    /\ NeedsRendering(1) /\ Failed(2) /\ Succeeded(3)
    /\ calls[2].agent = "puppeteer" /\ calls[3].agent = "playwright"
    /\ RespondedWith(200)

(***************************************************************************)
(* C5: when the named agent fails with an error other than                 *)
(* JavaScriptRequiredError, or the named agent is puppeteer or playwright  *)
(* and fails, the request ends with a 500 response that carries that       *)
(* agent's error alone, and no other scraper is invoked.                   *)
(***************************************************************************)
C5_NoEscalation ==
    (AgentPath /\ Failed(1)
        /\ (~NeedsRendering(1) \/ scraperAgent[1] \in {"puppeteer", "playwright"}))
        => /\ RespondedWith(500)
           /\ Len(calls) = 1
           /\ DOMAIN response.body = {"error", "strategy", "timestamp"}
           /\ response.body.error
                  = "Scraping with " \o scraperAgent[1] \o " failed: " \o results[1].message
           /\ response.body.strategy = scraperAgent[1]

C5_Witness ==
    /\ AgentPath /\ scraperAgent[1] = "cheerio"
    /\ Failed(1) /\ ~NeedsRendering(1) /\ RespondedWith(500)

(***************************************************************************)
(* C6: when an accepted request names one of the four agents, that agent's *)
(* scraper is the first one invoked; if it resolves, no other scraper is   *)
(* invoked and the strategy of the 200 response is the agent's name.       *)
(***************************************************************************)
C6_NamedAgentOnly ==
    (UrlAccepted /\ TruthyStr(scraperAgent) /\ scraperAgent[1] \in Agents)
        => /\ Len(calls) >= 1
           /\ calls[1].agent = scraperAgent[1]
           /\ Succeeded(1)
               => /\ RespondedWith(200)
                  /\ Len(calls) = 1
                  /\ response.body.strategy = scraperAgent[1]

C6_Witness ==
    /\ AgentPath /\ scraperAgent[1] = "cheerio" /\ Succeeded(1) /\ RespondedWith(200)

(***************************************************************************)
(* C7: when the named agent (axios or cheerio) rejects with                *)
(* JavaScriptRequiredError and puppeteer and playwright are then both      *)
(* invoked and both fail, the request ends with a 500 response that        *)
(* carries the three error messages.                                       *)
(***************************************************************************)
C7_ThreeErrors ==
    (AgentPath /\ NeedsRendering(1) /\ Failed(2) /\ Failed(3))
        => /\ RespondedWith(500)
           /\ calls[2].agent = "puppeteer"
           /\ calls[3].agent = "playwright"
           /\ response.body.originalAgentError = results[1].message
           /\ response.body.puppeteerError = results[2].message
           /\ response.body.playwrightError = results[3].message

C7_Witness ==
    AgentPath /\ NeedsRendering(1) /\ Failed(2) /\ Failed(3) /\ RespondedWith(500)

(***************************************************************************)
(* C8: on either path, a JavaScriptRequiredError from axios or cheerio is  *)
(* followed by an invocation of puppeteer before the request ends, and no  *)
(* request ends with a failure that reports a JavaScriptRequiredError and  *)
(* nothing else.                                                           *)
(***************************************************************************)
EndsWith(s, t) == Len(s) >= Len(t) /\ SubSeq(s, Len(s) - Len(t) + 1, Len(s)) = t

\* the attempts whose error message the failure response reports
Reported ==
    LET b == response.body
    IN  IF "details" \in DOMAIN b
        THEN {i \in 1..Len(results) :
                 /\ Failed(i)
                 /\ b.details[DetailKey(calls[i].agent)] # Undefined
                 /\ b.details[DetailKey(calls[i].agent)][1].message = results[i].message}
        ELSE IF "originalAgentError" \in DOMAIN b
        THEN {i \in 1..Len(results) :
                 /\ Failed(i)
                 /\ results[i].message
                        \in {b.originalAgentError, b.puppeteerError, b.playwrightError}}
        ELSE {i \in 1..Len(results) : Failed(i) /\ EndsWith(b.error, results[i].message)}

C8_SignalConsumed ==
    /\ \A i \in 1..Len(results) :
           NeedsRendering(i) => Len(calls) > i /\ calls[i + 1].agent = "puppeteer"
    /\ (RespondedWith(500) /\ Len(results) > 0)
           => \E i \in Reported : ~NeedsRendering(i)

C8_Witness ==
    /\ AgentPath /\ scraperAgent[1] = "cheerio" /\ NeedsRendering(1)
    /\ Invoked("puppeteer") /\ RespondedWith(500)

(***************************************************************************)
(* C9: when the url is accepted and the request names an agent that is     *)
(* not empty and is none of axios, cheerio, puppeteer, playwright, the     *)
(* response is a 400 and no scraper is invoked.                            *)
(***************************************************************************)
C9_UnknownAgent ==
    (UrlAccepted /\ TruthyStr(scraperAgent) /\ scraperAgent[1] \notin Agents)
        => /\ RespondedWith(400)
           /\ calls = <<>>
           /\ response.body.error = InvalidAgentMessage(scraperAgent[1])

C9_Witness ==
    /\ UrlAccepted /\ TruthyStr(scraperAgent) /\ scraperAgent[1] = "Axios"
    /\ RespondedWith(400)

(***************************************************************************)
(* C10: when the url of the request does not start with "http://" or       *)
(* "https://", the response is the 400 "Invalid URL format. Must start     *)
(* with http:// or https://" and no scraper is invoked, whether or not     *)
(* the request names an agent.                                             *)
(***************************************************************************)
C10_BadScheme ==
    (pc # "idle" /\ TruthyStr(url) /\ ~HasScheme(url[1]))
        => /\ RespondedWith(400)
           /\ response.body.error = "Invalid URL format. Must start with http:// or https://"
           /\ calls = <<>>

C10_Witness ==
    /\ pc = "done" /\ TruthyStr(url) /\ url[1] = "a.io/http://"
    /\ TruthyStr(scraperAgent) /\ scraperAgent[1] \in Agents
    /\ RespondedWith(400)

(***************************************************************************)
(* C11: when the body is parsed and neither the body nor the request path  *)
(* gives a url, the response is the 400 "URL is required" and no scraper   *)
(* is invoked.                                                             *)
(***************************************************************************)
BodyParsed ==
    /\ pc # "idle"
    /\ ~(/\ response.kind = "json"
         /\ "error" \in DOMAIN response.body
         /\ response.body.error = "Invalid JSON request body")

C11_UrlRequired ==
    (BodyParsed /\ ~TruthyStr(url))
        => /\ RespondedWith(400)
           /\ response.body.error = "URL is required"
           /\ calls = <<>>

C11_Witness ==
    /\ BodyParsed /\ url = Some("") /\ reqUrl = "http://localhost:3000/api/scrape"
    /\ RespondedWith(400)

(***************************************************************************)
(* C12: when the body has no url and the request URL is                    *)
(* <base>/?sq/<encoded target>, the target is extracted and decoded: the   *)
(* first scraper is invoked with the decoded target and the response is    *)
(* not "URL is required".                                                  *)
(***************************************************************************)
SqTarget == SubSeq(reqUrl, IndexOf(reqUrl, "/?sq/") + 5, Len(reqUrl))

C12_PathExtraction ==
    (/\ BodyParsed
     /\ ~TruthyStr(body.url)
     /\ IndexOf(reqUrl, "/?sq/") # 0
     /\ ~DecodeThrows(SqTarget)
     /\ HasScheme(decodeURIComponent(SqTarget))
     /\ ~(TruthyStr(scraperAgent) /\ scraperAgent[1] \notin Agents))
        => /\ Len(calls) >= 1
           /\ calls[1].url = decodeURIComponent(SqTarget)
           /\ ~(Responded /\ "error" \in DOMAIN response.body
                          /\ response.body.error = "URL is required")

(***************************************************************************)
(* C19 as stated: on the fallback chain, when puppeteer resolves after     *)
(* axios or cheerio rejected with JavaScriptRequiredError, the strategy of *)
(* the response differs from "puppeteer", the strategy reported when       *)
(* puppeteer resolves after plain failures.                                *)
(***************************************************************************)
PuppeteerResolvedAfterSignal ==
    /\ AutoPath
    /\ calls[Len(calls)].agent = "puppeteer"
    /\ Succeeded(Len(calls))
    /\ \E i \in 1..Len(results) : NeedsRendering(i)

C19_LabelRecordsSignal ==
    PuppeteerResolvedAfterSignal
        => RespondedWith(200) /\ response.body.strategy # "puppeteer"

(***************************************************************************)
(* C19 as amended: on the fallback chain, when puppeteer resolves after    *)
(* axios or cheerio rejected with JavaScriptRequiredError, the response is *)
(* the one given after plain failures: its strategy is "puppeteer" and no  *)
(* field of it records the JavaScriptRequiredError.                        *)
(***************************************************************************)
C19_LabelIgnoresSignal ==
    PuppeteerResolvedAfterSignal
        => /\ RespondedWith(200)
           /\ response.body.strategy = "puppeteer"
           /\ DOMAIN response.body
                  = {"scrapedText", "strategy", "finalUrl", "images", "timestamp"}

C19_Witness ==
    PuppeteerResolvedAfterSignal /\ NeedsRendering(2) /\ RespondedWith(200)

(***************************************************************************)
(* C20: on the fallback chain the strategy of a 200 response is the plain  *)
(* name of the scraper that resolved, also when axios or cheerio rejected  *)
(* with JavaScriptRequiredError earlier in the request.                    *)
(***************************************************************************)
C20_PlainLabel ==
    (AutoPath /\ RespondedWith(200))
        => /\ Succeeded(Len(calls))
           /\ response.body.strategy \in Agents
           /\ response.body.strategy = calls[Len(calls)].agent

C20_Witness ==
    /\ AutoPath /\ RespondedWith(200) /\ NeedsRendering(1)
    /\ calls[Len(calls)].agent = "playwright"

(***************************************************************************)
(* Vocabulary of the properties of one call of a scraper.                  *)
(***************************************************************************)
StaticScrapers == {"axios", "cheerio"}
RenderScrapers == {"puppeteer", "playwright"}

ScrapeReturned == spc = "returned"
ScrapeSucceeded == ScrapeReturned /\ outcome.kind = "resolved"
ScrapeFailed == ScrapeReturned /\ outcome.kind = "Error"
ScrapeNeedsRendering == ScrapeReturned /\ outcome.kind = "JavaScriptRequiredError"

\* the scraper awaited call, and the await settled in the given way
SettledWith(call, how) ==
    \E k \in 1..Len(trace) : trace[k].call = call /\ trace[k].settled = how

\* a static scraper has the markup of an HTML page in hand
FetchedHtml ==
    \/ /\ scraper = "axios"
       /\ SettledWith("axios.get", "fulfilled")
       /\ Contains(ToLower(res.contentType), "text/html")
    \/ /\ scraper = "cheerio"
       /\ SettledWith("fetchResponse.text", "fulfilled")

\* a render scraper has read the text and the images of the page it shows
ReadPage ==
    scraper \in RenderScrapers /\ SettledWith("page.evaluate (extract)", "fulfilled")

\* the text a scraper measures against its threshold
FinalText ==
    CASE scraper = "axios"
             -> cleanText(CheerioText(Remove(site.served, AxiosNonContent \o <<"noscript">>),
                                      "body"))
      [] scraper = "cheerio" -> cleanText(PotentialText(Remove(site.served, CheerioNonContent)))
      [] scraper \in RenderScrapers -> cleanText(Extracted(tab.document).textContent)

\* the thresholds of the strategies
Threshold(name) == IF name = "axios" THEN 50 ELSE 100

\* the <img> elements of the page the scraper looks at
ImgElements ==
    Select(IF scraper \in StaticScrapers THEN site.served ELSE site.rendered, "img")

(***************************************************************************)
(* C13: every successful call returns a normalized text at least as long   *)
(* as the threshold of its scraper (50 for axios, 100 for cheerio,          *)
(* puppeteer and playwright); a call that measured a shorter final text     *)
(* fails with a plain error, however many images the page has.             *)
(***************************************************************************)
C13_Threshold ==
    /\ ScrapeSucceeded
           => /\ Len(outcome.data.textContent) >= Threshold(scraper)
              /\ outcome.data.textContent = FinalText
              /\ cleanText(outcome.data.textContent) = outcome.data.textContent
    /\ (/\ ScrapeReturned
        /\ FetchedHtml \/ ReadPage
        /\ ~ScrapeNeedsRendering
        /\ Len(FinalText) < Threshold(scraper))
           => ScrapeFailed

C13_Witness ==
    /\ ScrapeFailed /\ scraper = "axios" /\ FetchedHtml
    /\ Len(FinalText) = 49
    /\ Len(ImgElements) = 5

(***************************************************************************)
(* C14: a call of puppeteer or playwright that acquired a browser has      *)
(* closed it by the time it returns, on every exit path: browser.close()   *)
(* was awaited as the last step of the call, and the browser is closed     *)
(* once that await is fulfilled.                                           *)
(***************************************************************************)
AcquiredBrowser ==
    /\ scraper \in RenderScrapers
    /\ SettledWith("puppeteer.launch", "fulfilled") \/ SettledWith("chromium.launch", "fulfilled")

C14_BrowserClosed ==
    (ScrapeReturned /\ AcquiredBrowser)
        => /\ trace[Len(trace)].call = "browser.close"
           /\ trace[Len(trace)].settled = "fulfilled" => browser = "closed"
           /\ browser # "null"

C14_Witness ==
    /\ ScrapeReturned /\ AcquiredBrowser
    /\ SettledWith("page.goto", "rejected")
    /\ browser = "closed"
    /\ ScrapeFailed

(***************************************************************************)
(* C15: a static scraper that has fetched an HTML page signals that the    *)
(* page needs rendering if and only if a JS-required pattern matches the   *)
(* raw markup and the preliminary normalized text is shorter than 500      *)
(* characters; otherwise it goes on to its threshold check, which alone    *)
(* decides between success and failure.                                    *)
(***************************************************************************)
\* the markup the scraper fetched
Markup == OuterHtml(site.served)

\* the text the scraper measures against the gate of the detector
PreliminaryText ==
    IF scraper = "axios"
    THEN cleanText(CheerioText(Remove(site.served, AxiosNonContent), "body"))
    ELSE cleanText(CheerioText(site.served, "body"))

C15_Detector ==
    (ScrapeReturned /\ scraper \in StaticScrapers /\ FetchedHtml)
        => /\ ScrapeNeedsRendering
                  <=> (SomePatternTests(Markup) /\ Len(PreliminaryText) < 500)
           /\ ~ScrapeNeedsRendering
                  => /\ ScrapeSucceeded <=> Len(FinalText) >= Threshold(scraper)
                     /\ ScrapeFailed <=> Len(FinalText) < Threshold(scraper)

C15_Witness ==
    /\ ScrapeNeedsRendering /\ scraper = "axios" /\ FetchedHtml
    /\ Len(PreliminaryText) = 499

(***************************************************************************)
(* C16: a call of puppeteer or playwright never ends with the signal that  *)
(* the page needs rendering: it returns scraped data or fails with a       *)
(* plain error, also on a page that carries a JS-required notice.          *)
(***************************************************************************)
C16_RenderNeverSignals ==
    (ScrapeReturned /\ scraper \in RenderScrapers) => outcome.kind \in {"resolved", "Error"}

C16_Witness ==
    /\ ScrapeFailed /\ scraper = "playwright" /\ ReadPage
    /\ SomePatternTests(Markup)
    /\ Len(FinalText) < 100

(***************************************************************************)
(* C17: in every successful result, each image reference of the page is    *)
(* resolved against the final URL of the page, the one the result returns  *)
(* as finalUrl, also when it differs from the requested URL.               *)
(***************************************************************************)
\* the image references of the page: src and alt of each <img> that has a src
Refs == ImagesArray(ImgElements)

\* src is what a reference of the page resolves to against base, or that
\* reference itself if it does not resolve
ResolvedAgainst(src, base) ==
    \E j \in 1..Len(Refs) :
        src = IF Href(Refs[j].src, base) = <<>> THEN Refs[j].src
              ELSE Href(Refs[j].src, base)[1]

C17_ImagesAgainstFinalUrl ==
    ScrapeSucceeded
        => \A k \in 1..Len(outcome.data.images) :
               ResolvedAgainst(outcome.data.images[k].src, outcome.data.finalUrl)

(***************************************************************************)
(* C18: an image whose reference does not resolve to an absolute URL is    *)
(* dropped by axios and cheerio and kept with its original src by          *)
(* puppeteer and playwright; the other images keep their order, and the    *)
(* call does not fail because of the image.                                *)
(***************************************************************************)
Resolvable(src) == Href(src, site.finalUrl) # <<>>

AltsOf(images) == [k \in 1..Len(images) |-> images[k].alt]

\* the references of the page that resolve, in the order of the page
ResolvableRefs ==
    LET order == Ascending({k \in 1..Len(Refs) : Resolvable(Refs[k].src)})
    IN  [i \in 1..Len(order) |-> Refs[order[i]]]

C18_UnresolvableImage ==
    /\ (ScrapeSucceeded /\ scraper \in StaticScrapers)
           => AltsOf(outcome.data.images) = AltsOf(ResolvableRefs)
    /\ (ScrapeSucceeded /\ scraper \in RenderScrapers)
           => /\ AltsOf(outcome.data.images) = AltsOf(Refs)
              /\ \A k \in 1..Len(Refs) :
                     ~Resolvable(Refs[k].src) => outcome.data.images[k].src = Refs[k].src
    /\ (/\ ScrapeReturned
        /\ FetchedHtml \/ ReadPage
        /\ ~ScrapeNeedsRendering
        /\ Len(FinalText) >= Threshold(scraper)
        /\ trace[Len(trace)].settled = "fulfilled")
           => ScrapeSucceeded

C18_Witness ==
    /\ ScrapeSucceeded /\ scraper = "cheerio"
    /\ \E k \in 1..Len(Refs) : ~Resolvable(Refs[k].src)
    /\ Len(outcome.data.images) = Len(Refs) - 1

(***************************************************************************)
(* C21: when the response a static scraper fetched has a content type      *)
(* that is not HTML, the call fails with a plain error: it neither         *)
(* returns scraped data nor signals that the page needs rendering.         *)
(***************************************************************************)
\* a static scraper received a successful response and, for cheerio, its body
Fetched ==
    \/ scraper = "axios" /\ SettledWith("axios.get", "fulfilled")
    \/ /\ scraper = "cheerio"
       /\ SettledWith("fetch", "fulfilled")
       /\ res.status = 200
       /\ SettledWith("fetchResponse.text", "fulfilled")

HtmlContentType == Contains(ToLower(res.contentType), "text/html")

C21_NotHtmlFails ==
    (ScrapeReturned /\ scraper \in StaticScrapers /\ Fetched /\ ~HtmlContentType)
        => ScrapeFailed

(***************************************************************************)
(* C22: in a request, each of the four scrapers is invoked at most once,   *)
(* on the fallback chain and in the agent-specific branch, its fallback to *)
(* puppeteer and playwright included.                                      *)
(***************************************************************************)
C22_AtMostOnce ==
    /\ \A i \in 1..Len(calls) : calls[i].agent \in Agents
    /\ \A i, j \in 1..Len(calls) : i # j => calls[i].agent # calls[j].agent

C22_Witness ==
    /\ AgentPath /\ pc = "done" /\ Len(calls) = 3
    /\ Invoked("puppeteer") /\ Invoked("playwright")

(***************************************************************************)
(* C23: in a request at most one call of a scraper is in flight: every     *)
(* call but the last has settled, and the last one is in flight exactly    *)
(* while the handler is suspended in its await.                            *)
(***************************************************************************)
InFlight == Len(calls) - Len(results)

C23_OneInFlight ==
    /\ InFlight \in {0, 1}
    /\ InFlight = 1 <=> pc \notin {"idle", "done"}

C23_Witness ==
    pc = "playwright" /\ Len(calls) = 4 /\ Len(results) = 3 /\ InFlight = 1

(***************************************************************************)
(* C29: playwright is invoked only right after puppeteer was invoked and   *)
(* failed in the same request, unless playwright is the agent the request  *)
(* names; puppeteer is never invoked after playwright.                     *)
(***************************************************************************)
C29_PuppeteerBeforePlaywright ==
    /\ \A i \in 1..Len(calls) :
           calls[i].agent = "playwright"
               => \/ i = 1 /\ AgentPath /\ scraperAgent[1] = "playwright"
                  \/ i > 1 /\ calls[i - 1].agent = "puppeteer" /\ Failed(i - 1)
    /\ \A i, j \in 1..Len(calls) :
           i < j => ~(calls[i].agent = "playwright" /\ calls[j].agent = "puppeteer")

C29_Witness ==
    /\ AgentPath /\ scraperAgent[1] = "cheerio" /\ Len(calls) = 3
    /\ calls[2].agent = "puppeteer" /\ Failed(2) /\ calls[3].agent = "playwright"
    /\ Succeeded(3)

(***************************************************************************)
(* C26: the text cleanText returns holds no white space but single spaces: *)
(* every run of white space of the input, a run of one tab or one newline  *)
(* included, has become one space, and the text neither starts nor ends    *)
(* with white space.                                                       *)
(***************************************************************************)
SingleSpaced(s) ==
    \A i \in 1..Len(s) :
        CharAt(s, i) \in WhiteSpace
            => /\ CharAt(s, i) = " "
               /\ i \notin {1, Len(s)}
               /\ CharAt(s, i + 1) \notin WhiteSpace

C26_SingleSpaces == fn = "cleanText" => SingleSpaced(value)

Popped(dirs, ups) == SubSeq(dirs, 1, IF ups >= Len(dirs) THEN 0 ELSE Len(dirs) - ups)

Expected(ref, base) ==
    CASE ref.kind = "absolute" -> ref.rest
      [] ref.kind = "root" -> base.origin \o ref.rest
      [] ref.kind = "relative"
             -> base.origin \o JoinPath(Popped(base.dirs, ref.ups)) \o "/" \o ref.rest

C28_Resolution ==
    /\ fn = "new URL" => value = <<Expected(args[1], args[2])>>
    /\ Href("../images/pic.jpg", "http://example.com/path/page.html")
           = <<"http://example.com/images/pic.jpg">>

C28_Witness ==
    /\ fn = "new URL"
    /\ SrcOf(args[1]) = "../../images/pic.jpg"
    /\ UrlOf(args[2]) = "http://example.com/puppeteer/final/path/index.html"
    /\ value = <<"http://example.com/puppeteer/images/pic.jpg">>

(***************************************************************************)
(* The run of POST on one request, alone, as a function of the request and *)
(* of what its calls of the scrapers settle with, in order: the calls made *)
(* so far, the attempt log and the response (none while a call is in       *)
(* flight).  Times are left out of the comparison with a run: they are     *)
(* read from the clock.                                                    *)
(***************************************************************************)
Ran(made, log, r) == [calls |-> made, log |-> log, response |-> r]

CallOf(agent, u) == [agent |-> agent, url |-> u]

\* the scraper the fallback chain tries after agent has failed with error, "" after the last
NextOfChain(agent, error) ==
    CASE agent = "axios" -> IF SkipsCheerio(error) THEN "puppeteer" ELSE "cheerio"
      [] agent = "cheerio" -> "puppeteer"
      [] agent = "puppeteer" -> "playwright"
      [] agent = "playwright" -> ""

\* the fallback chain from the call of agent on; made and log are the calls and the log before it
RECURSIVE AloneChain(_, _, _, _, _)
AloneChain(u, agent, outs, made, log) ==
    IF outs = <<>> THEN Ran(Append(made, CallOf(agent, u)), log, NoResponse)
    ELSE IF Head(outs).kind = "resolved"
    THEN Ran(Append(made, CallOf(agent, u)), log,
             Json(200, ScrapedBody(Head(outs).data, agent)))
    ELSE IF NextOfChain(agent, Head(outs)) = ""
    THEN Ran(Append(made, CallOf(agent, u)),
             [log EXCEPT ![DetailKey(agent)] = Attempt(Head(outs))],
             Json(500, AllFailedBody([log EXCEPT ![DetailKey(agent)] = Attempt(Head(outs))],
                                     now)))
    ELSE AloneChain(u, NextOfChain(agent, Head(outs)), Tail(outs),
                    Append(made, CallOf(agent, u)),
                    [log EXCEPT ![DetailKey(agent)] = Attempt(Head(outs))])

\* the fallback of the agent-specific branch, after the agent failed with error
AloneFallback(u, agent, error, outs) ==
    IF outs = <<>>
    THEN Ran(<<CallOf(agent, u), CallOf("puppeteer", u)>>, NoDetails, NoResponse)
    ELSE IF outs[1].kind = "resolved"
    THEN Ran(<<CallOf(agent, u), CallOf("puppeteer", u)>>, NoDetails,
             Json(200, PuppeteerFallbackBody(agent, outs[1].data, error)))
    ELSE Ran(<<CallOf(agent, u), CallOf("puppeteer", u), CallOf("playwright", u)>>, NoDetails,
             IF Len(outs) = 1 THEN NoResponse
             ELSE IF outs[2].kind = "resolved"
             THEN Json(200, PlaywrightFallbackBody(agent, outs[2].data, error, outs[1]))
             ELSE Json(500, FallbackFailedBody(agent, error, outs[1], outs[2])))

\* the agent-specific branch
AloneAgent(u, agent, outs) ==
    IF SelectScraper(agent) = "invalid"
    THEN Ran(<<>>, NoDetails, Json(400, [error |-> InvalidAgentMessage(agent)]))
    ELSE IF outs = <<>> THEN Ran(<<CallOf(agent, u)>>, NoDetails, NoResponse)
    ELSE IF outs[1].kind = "resolved"
    THEN Ran(<<CallOf(agent, u)>>, NoDetails, Json(200, ScrapedBody(outs[1].data, agent)))
    ELSE IF SmartFallback(agent, outs[1])
    THEN AloneFallback(u, agent, outs[1], Tail(outs))
    ELSE Ran(<<CallOf(agent, u)>>, NoDetails, Json(500, AgentFailedBody(agent, outs[1])))

\* POST on a request (u is its url as resolved), from the validation of the url on
AloneFrom(u, b, outs) ==
    IF u.throws
    THEN Ran(<<>>, NoDetails,
             Json(500, [error |-> "An unexpected error occurred on the server.",
                        details |-> "URI malformed", timestamp |-> now]))
    ELSE IF UrlMissing(u.url)
    THEN Ran(<<>>, NoDetails, Json(400, [error |-> "URL is required"]))
    ELSE IF ~UrlFormatOk(u.url[1])
    THEN Ran(<<>>, NoDetails,
             Json(400, [error |-> "Invalid URL format. Must start with http:// or https://"]))
    ELSE IF TruthyStr(b.scraperAgent)
    THEN AloneAgent(u.url[1], b.scraperAgent[1], outs)
    ELSE AloneChain(u.url[1], "axios", outs, <<>>, NoDetails)

Alone(b, ru, outs) == AloneFrom(ResolveUrl(b, ru), b, outs)

\* an attempt log and a response without the times they carry
LogNoTime(log) ==
    [k \in ErrorKeys |-> IF log[k] = Undefined THEN Undefined
                         ELSE Some([log[k][1] EXCEPT !.timestamp = 0])]

BodyNoTime(b) ==
    IF "timestamp" \notin DOMAIN b THEN b
    ELSE IF "details" \in DOMAIN b /\ b.error = "All scraping strategies failed."
    THEN [b EXCEPT !.timestamp = 0, !.details = LogNoTime(b.details)]
    ELSE [b EXCEPT !.timestamp = 0]

NoTime(r) == IF r.kind = "json" THEN [r EXCEPT !.body = BodyNoTime(r.body)] ELSE r

RanNoTime(ran) ==
    [calls |-> ran.calls, log |-> LogNoTime(ran.log), response |-> NoTime(ran.response)]

\* what the running request has done so far
Running == Ran(calls, errorDetails, response)

\* a body without the fields crawlDepth and searchDepth
WithoutDepths(b) == [b EXCEPT !.crawlDepth = Undefined, !.searchDepth = Undefined]

(***************************************************************************)
(* C25: the calls of the scrapers and the response (status, strategy,      *)
(* content, errors) of a request are those of the request without its      *)
(* crawlDepth and searchDepth, given what the calls settle with; so two    *)
(* requests that differ in these two fields alone get the same calls and   *)
(* the same response when their calls settle alike.                        *)
(***************************************************************************)
C25_DepthsIgnored ==
    BodyParsed
        => RanNoTime(Running) = RanNoTime(Alone(WithoutDepths(body), reqUrl, results))

C25_Witness ==
    /\ RespondedWith(200) /\ AutoPath /\ Len(calls) = 3
    /\ crawlDepth = 1 /\ body.searchDepth = Undefined

(***************************************************************************)
(* C30 as stated: some request in which axios rejects with                 *)
(* JavaScriptRequiredError and the fallback follows ends with a 200        *)
(* response whose strategy is "puppeteer (fallback from playwright after   *)
(* axios)".  The requests are all those of the model with an accepted url, *)
(* the calls of puppeteer and playwright settle in every way they can.     *)
(***************************************************************************)
Accepted == {b \in Bodies : TruthyStr(b.url) /\ UrlFormatOk(b.url[1])}

Signals(u) == {o \in scrapeWithAxios(u) : o.kind = "JavaScriptRequiredError"}

Escalations(u) ==
    {<<j, p>> : j \in Signals(u), p \in scrapeWithPuppeteer(u)}
    \cup {<<j, p, w>> : j \in Signals(u), p \in scrapeWithPuppeteer(u),
                        w \in scrapeWithPlaywright(u)}

EndsWithLabel(ran, label) ==
    /\ ran.response.kind = "json"
    /\ ran.response.status = 200
    /\ ran.response.body.strategy = label

C30_SwappedLabelProduced ==
    \E b \in Accepted, ru \in ReqUrls :
        \E outs \in Escalations(b.url[1]) :
            EndsWithLabel(Alone(b, ru, outs), "puppeteer (fallback from playwright after axios)")

(***************************************************************************)
(* C30 as amended: a request that names axios, whose axios call rejects    *)
(* with JavaScriptRequiredError, ends with a 200 response only with the    *)
(* strategy "puppeteer (fallback from axios)" or "playwright (fallback     *)
(* from puppeteer after axios)", and both are produced; no response of any *)
(* request has the strategy "puppeteer (fallback from playwright after     *)
(* axios)".                                                                *)
(***************************************************************************)
C30_FallbackLabels ==
    /\ (RespondedWith(200) /\ AgentPath /\ scraperAgent[1] = "axios" /\ NeedsRendering(1))
           => \/ Len(calls) = 2 /\ response.body.strategy = "puppeteer (fallback from axios)"
              \/ /\ Len(calls) = 3
                 /\ response.body.strategy = "playwright (fallback from puppeteer after axios)"
    /\ (Responded /\ "strategy" \in DOMAIN response.body)
           => response.body.strategy # "puppeteer (fallback from playwright after axios)"

C30_Witness ==
    /\ RespondedWith(200) /\ AgentPath /\ scraperAgent[1] = "axios" /\ NeedsRendering(1)
    /\ Failed(2) /\ Succeeded(3)
    /\ response.body.strategy = "playwright (fallback from puppeteer after axios)"

(***************************************************************************)
(* C24: when two requests are processed in one server, their steps         *)
(* interleaved at the awaits in every way, the calls of the scrapers, the  *)
(* attempt log and the response of each request are those of the request   *)
(* processed alone, given what its calls settle with.                      *)
(***************************************************************************)
\* the body of the request with these locals was parsed
ParsedIn(l) ==
    /\ l.pc # "idle"
    /\ ~(/\ l.response.kind = "json"
         /\ "error" \in DOMAIN l.response.body
         /\ l.response.body.error = "Invalid JSON request body")

AsAlone(l) ==
    ParsedIn(l)
        => RanNoTime(Ran(l.calls, l.errorDetails, l.response))
               = RanNoTime(Alone(l.body, l.reqUrl, l.results))

C24_AsAlone == AsAlone(Locals) /\ AsAlone(parked)

\* both requests went down the fallback paths, each suspended while the other ran
C24_Witness ==
    /\ pc = "done" /\ parked.pc = "done"
    /\ Len(calls) = 3 /\ Len(parked.calls) = 4
    /\ response.status = 200 /\ parked.response.status = 500
    /\ parked.lastErrorTimestamp > parked.errorDetails["axiosError"][1].timestamp + 3

(***************************************************************************)
(* C31: both static scrapers test the JS-required patterns before they     *)
(* validate the length of the text: on a fetched HTML page that matches a  *)
(* pattern and whose preliminary text is shorter than 500, the call        *)
(* signals that the page needs rendering and does not fail, also when its  *)
(* final text is below the threshold of the scraper; and the fallback      *)
(* chain, given that outcome of axios, goes on to puppeteer, not cheerio.  *)
(***************************************************************************)
\* the page matches a JS-required pattern and its preliminary text is short
Detected == SomePatternTests(Markup) /\ Len(PreliminaryText) < JS_REQUIRED_CONTENT_THRESHOLD

\* the scraper the fallback chain invokes after axios settled with error
AfterAxios(error) == IF SkipsCheerio(error) THEN "puppeteer" ELSE "cheerio"

C31_DetectorFirst ==
    (ScrapeReturned /\ scraper \in StaticScrapers /\ FetchedHtml /\ Detected)
        => /\ ScrapeNeedsRendering
           /\ ~ScrapeFailed
           /\ scraper = "axios" => AfterAxios(outcome) = "puppeteer"

C31_Witness ==
    /\ ScrapeNeedsRendering /\ scraper = "axios" /\ FetchedHtml
    /\ Detected
    /\ Len(FinalText) < Threshold("axios")
    /\ AfterAxios(outcome) = "puppeteer"

(***************************************************************************)
(* C32: in puppeteer and playwright the removal of the non-content         *)
(* elements and the extraction of text and images are two evaluations in   *)
(* the page, awaited one after the other once page.goto is fulfilled: the  *)
(* extraction is awaited only right after a fulfilled removal, the removal *)
(* only right after a fulfilled navigation; a successful call has awaited  *)
(* exactly two evaluations; and after a rejected navigation or a rejected  *)
(* removal the extraction is never awaited.                                *)
(***************************************************************************)
Evaluations == {"page.evaluate (remove)", "page.evaluate (extract)"}

\* the awaits of the call so far that are evaluations in the page
Evaluated == {k \in 1..Len(trace) : trace[k].call \in Evaluations}

\* the await at k comes right after a fulfilled await of call
RightAfter(k, call) ==
    k > 1 /\ trace[k - 1].call = call /\ trace[k - 1].settled = "fulfilled"

C32_TwoEvaluations ==
    scraper \in RenderScrapers
        => /\ \A k \in 1..Len(trace) :
                  /\ trace[k].call = "page.evaluate (remove)" => RightAfter(k, "page.goto")
                  /\ trace[k].call = "page.evaluate (extract)"
                         => RightAfter(k, "page.evaluate (remove)")
           /\ Cardinality(Evaluated) <= 2
           /\ ScrapeSucceeded
                  => /\ Cardinality(Evaluated) = 2
                     /\ SettledWith("page.evaluate (remove)", "fulfilled")
                     /\ SettledWith("page.evaluate (extract)", "fulfilled")
           /\ (SettledWith("page.goto", "rejected")
                   \/ SettledWith("page.evaluate (remove)", "rejected"))
                  => \A k \in 1..Len(trace) : trace[k].call # "page.evaluate (extract)"

C32_Witness ==
    /\ ScrapeFailed /\ scraper = "playwright"
    /\ SettledWith("page.goto", "fulfilled")
    /\ SettledWith("page.evaluate (remove)", "rejected")
    /\ Cardinality(Evaluated) = 1
    /\ browser = "closed"

(***************************************************************************)
(* C33: in the agent-specific branch, a success of the fallback carries    *)
(* the message of the JavaScriptRequiredError of the specified agent as    *)
(* originalAgentError, and a success of playwright carries in addition     *)
(* the message of the puppeteer error as puppeteerFallbackError; a         *)
(* success of the specified agent itself carries no error message.         *)
(***************************************************************************)
\* the keys under which a success response carries an error message
ErrorFields == {"error", "details", "originalAgentError", "puppeteerFallbackError",
                "puppeteerError", "playwrightError"}

\* the error messages a response carries
Carried == DOMAIN response.body \cap ErrorFields

C33_FallbackErrors ==
    (AgentPath /\ RespondedWith(200))
        => /\ Succeeded(Len(calls))
           /\ Len(calls) = 1 => Carried = {}
           /\ Len(calls) = 2
                  => /\ NeedsRendering(1)
                     /\ calls[2].agent = "puppeteer"
                     /\ Carried = {"originalAgentError"}
                     /\ response.body.originalAgentError = results[1].message
           /\ Len(calls) = 3
                  => /\ NeedsRendering(1) /\ Failed(2)
                     /\ calls[3].agent = "playwright"
                     /\ Carried = {"originalAgentError", "puppeteerFallbackError"}
                     /\ response.body.originalAgentError = results[1].message
                     /\ response.body.puppeteerFallbackError = results[2].message
           /\ Len(calls) <= 3

C33_Witness ==
    /\ AgentPath /\ RespondedWith(200) /\ scraperAgent[1] = "cheerio"
    /\ Len(calls) = 3
    /\ response.body.puppeteerFallbackError = "Protocol error (Browser.close): Target closed."

(***************************************************************************)
(* C34: in every "All scraping strategies failed." response the details    *)
(* hold exactly one entry for each scraper the request invoked, with the   *)
(* message of that scraper's error, and none for a scraper it did not      *)
(* invoke; when axios rejected with JavaScriptRequiredError and puppeteer  *)
(* and playwright failed, there are three entries and none for cheerio.    *)
(***************************************************************************)
\* the request ended with the failure of the whole fallback chain
Exhausted ==
    /\ RespondedWith(500)
    /\ "details" \in DOMAIN response.body
    /\ response.body.error = "All scraping strategies failed."

\* the keys of the details that hold an entry
Entries(details) == {k \in DOMAIN details : details[k] # Undefined}

\* the invocations of a scraper in the request
InvocationsOf(agent) == {i \in 1..Len(calls) : calls[i].agent = agent}

C34_LogMatchesInvocations ==
    Exhausted
        => /\ AutoPath
           /\ Entries(response.body.details) = {DetailKey(calls[i].agent) : i \in 1..Len(calls)}
           /\ Cardinality(Entries(response.body.details)) = Len(calls)
           /\ \A i \in 1..Len(calls) :
                  /\ InvocationsOf(calls[i].agent) = {i}
                  /\ Failed(i)
                  /\ response.body.details[DetailKey(calls[i].agent)][1].message
                         = results[i].message
           /\ NeedsRendering(1)
                  => /\ Entries(response.body.details)
                            = {"axiosError", "puppeteerError", "playwrightError"}
                     /\ ~Invoked("cheerio")

C34_Witness ==
    /\ Exhausted /\ NeedsRendering(1) /\ Failed(2) /\ Failed(3)
    /\ Cardinality(Entries(response.body.details)) = 3
    /\ response.body.details["cheerioError"] = Undefined

(***************************************************************************)
(* C35: on the fallback chain, a request whose url passed validation ends  *)
(* with a failure only after playwright has been invoked and has failed:   *)
(* after a failure of axios, cheerio or puppeteer the handler has invoked  *)
(* the next scraper and has not responded.                                 *)
(***************************************************************************)
\* the last scraper the request invoked
LastCall == calls[Len(calls)]

C35_OnlyPlaywrightEnds ==
    AutoPath
        => /\ (Responded /\ response.status # 200)
                  => /\ LastCall.agent = "playwright"
                     /\ Len(results) = Len(calls)
                     /\ Failed(Len(calls))
           /\ \A i \in 1..Len(results) :
                  (Failed(i) /\ calls[i].agent # "playwright")
                      => /\ Len(calls) > i
                         /\ Rank(calls[i + 1].agent) > Rank(calls[i].agent)

C35_Witness ==
    /\ AutoPath /\ RespondedWith(500)
    /\ Len(calls) = 4
    /\ Failed(1) /\ Failed(2) /\ Failed(3) /\ Failed(4)
    /\ ~NeedsRendering(2)

(***************************************************************************)
(* C36: if every call of a scraper settles, every request that arrived     *)
(* ends with a response; the response, once given, does not change; and    *)
(* the request invokes at most four scrapers on the fallback chain and at  *)
(* most three when it names an agent.                                      *)
(***************************************************************************)
\* the request has arrived
Arrived == pc # "idle"

C36_Terminates ==
    /\ [](AutoPath => Len(calls) <= 4)
    /\ [](AgentPath => Len(calls) <= 3)
    /\ [](pc = "done" <=> response # NoResponse)
    /\ [][response # NoResponse => response' = response]_vars
    /\ Arrived ~> Responded

C36_Witness ==
    /\ AgentPath /\ Responded
    /\ Len(calls) = 3 /\ Len(results) = 3
    /\ scraperAgent[1] = "axios"

(***************************************************************************)
(* C37: each of the four scrapers takes its text from the main content     *)
(* region of the page (<main>, else <article>) when the page has one, and  *)
(* from the whole body only when it has none: the text of a successful     *)
(* call is the cleaned text of that region.                                *)
(***************************************************************************)
\* the page as the scraper reads its text, non-content elements removed
Stripped ==
    CASE scraper = "axios" -> Remove(site.served, AxiosNonContent \o <<"noscript">>)
      [] scraper = "cheerio" -> Remove(site.served, CheerioNonContent)
      [] scraper \in RenderScrapers -> tab.document

\* the main content region of a page, or its body when it has none
ContentRegion(document) ==
    IF Select(document, "main") # <<>> THEN Select(document, "main")[1]
    ELSE IF Select(document, "article") # <<>> THEN Select(document, "article")[1]
    ELSE Select(document, "body")[1]

\* the text of an element as the scraper reads it: textContent or innerText
RegionText(node) ==
    IF scraper \in StaticScrapers THEN TextContent(node) ELSE innerText(node)

C37_ContentRegion ==
    ScrapeSucceeded
        => outcome.data.textContent = cleanText(RegionText(ContentRegion(Stripped)))

\* the same for cheerio, puppeteer and playwright alone
C37_ExceptAxios ==
    (ScrapeSucceeded /\ scraper # "axios")
        => outcome.data.textContent = cleanText(RegionText(ContentRegion(Stripped)))

(***************************************************************************)
(* C38: when the server answers a static scraper with an HTTP status       *)
(* outside 200..299, the call fails with a plain error: it neither         *)
(* returns scraped data nor signals that the page needs rendering, and     *)
(* the body of the response is never read, whatever the page says.         *)
(***************************************************************************)
\* the server answered, with a status that is not a success
NonOkStatus == res.status # 0 /\ ~(res.status >= 200 /\ res.status < 300)

\* the scraper has the body of the response in hand
BodyRead ==
    \/ SettledWith("axios.get", "fulfilled")
    \/ \E k \in 1..Len(trace) : trace[k].call = "fetchResponse.text"

C38_NonOkFails ==
    (scraper \in StaticScrapers /\ NonOkStatus)
        => /\ ScrapeFailed
           /\ ~BodyRead

C38_Witness ==
    /\ ScrapeFailed /\ scraper = "cheerio"
    /\ res.status = 404
    /\ SomePatternTests(Markup) /\ Len(PreliminaryText) < JS_REQUIRED_CONTENT_THRESHOLD

(***************************************************************************)
(* C39: in one request at most one browser is open at a time: each call    *)
(* of puppeteer or playwright launches one browser of its own and closes   *)
(* only that one, and by the time playwright awaits its launch, close()    *)
(* of the browser of puppeteer has been awaited and has settled.  An       *)
(* instance counts as closed once its close() is fulfilled.                *)
(***************************************************************************)
Launches == {"puppeteer.launch", "chromium.launch"}

\* the awaits of the request that gave it a browser
Launched ==
    {k \in 1..Len(trace) : trace[k].call \in Launches /\ trace[k].settled = "fulfilled"}

\* the await of close() of the browser launched at k: the first one after k
CloseOf(k) ==
    {j \in (k + 1)..Len(trace) :
        /\ trace[j].call = "browser.close"
        /\ \A i \in (k + 1)..(j - 1) : trace[i].call \notin Launches \cup {"browser.close"}}

\* the browsers of the request that are not closed
OpenBrowsers == {k \in Launched : \A j \in CloseOf(k) : trace[j].settled # "fulfilled"}

CloseRejected ==
    \E j \in 1..Len(trace) : trace[j].call = "browser.close" /\ trace[j].settled = "rejected"

\* the calls of puppeteer and playwright whose body has started to run
RenderCallsStarted ==
    {i \in 1..Len(calls) :
        /\ calls[i].agent \in RenderScrapers
        /\ i <= Len(results) \/ scraper = calls[i].agent}

C39_OneBrowser ==
    /\ ~CloseRejected => Cardinality(OpenBrowsers) <= 1
    /\ \A k \in 1..Len(trace) :
           trace[k].call = "chromium.launch"
               => \A i \in Launched :
                      i < k => \E j \in CloseOf(i) : j < k /\ trace[j].settled # "pending"
    /\ \A j \in 1..Len(trace) :
           trace[j].call = "browser.close" => \E k \in Launched : j \in CloseOf(k)
    /\ Cardinality({k \in 1..Len(trace) : trace[k].call \in Launches})
           = Cardinality(RenderCallsStarted)
    /\ browser = "open" => (Launched # {} /\ MaxOf(Launched) \in OpenBrowsers)
    /\ (browser = "closed" /\ ~CloseRejected) => OpenBrowsers = {}

C39_Witness ==
    /\ scraper = "playwright" /\ browser = "open"
    /\ Cardinality(Launched) = 2
    /\ Cardinality(OpenBrowsers) = 1
    /\ ~CloseRejected
    /\ pc = "playwright"

====
